---- MODULE Spec2Model ----
(***************************************************************************)
(* State-machine model of the Global IQ intake core:                       *)
(*   - InputCollector (sequential collector)   app/input_collector.py      *)
(*   - EnhancedAgentRouter.route_query         app/enhanced_agent_router.py*)
(*   - ConversationalCollector.is_complete     app/conversational_collector.py *)
(*   - handle_message (session orchestrator)   app/main.py                 *)
(* Text is modelled as a sequence of one-character strings so that         *)
(* str.lower(), str.strip() and the substring test `in` are computed.      *)
(***************************************************************************)
EXTENDS Integers, Sequences, FiniteSets, TLC

VARIABLES
    user_role,      \* user.metadata['role'] of the authenticated user
    user_data,      \* cl.user_session["user_data"]: the session dictionary
    msg,            \* content of the message handled by the last step
    branch,         \* which part of handle_message handled the last message
    acted,          \* collection domains on which the last step ran start_collection / process_answer
    response,       \* the message sent back by the last step
    is_completed,   \* third component of the last process_answer result
    handed,         \* data handed to the downstream service by the last step
    reached_end,    \* per domain: process_answer has advanced current_question to the schema length
    delivered,      \* domains whose completed data has been handed to the downstream service
    router_input,   \* input of the last direct route_query call
    oracle,         \* behaviour of router_chain.invoke in the last route_query call
    routing_result, \* result of the last route_query call
    keyword_call,   \* the last direct _keyword_based_routing call: its input and result
    questions_parsed, \* per agent type: _parse_questions_file read the questions file
    extraction_route,   \* route argument of the extract_information calls of the conversation
    completion,     \* behaviour of client.chat.completions.create in the last extract_information call
    extraction,     \* result of the last extract_information call
    collected_fields, \* the conversation's collected_data dictionary
    turn,           \* what the last turn of the conversation computed after the merge
    service_manager, \* the MCPServiceManager: enable_mcp, agent_system, health_monitor, stats
    now,            \* datetime.now(), in ticks
    service_call,   \* the last predict_compensation / analyze_policy call and its outcome
    current,        \* the session whose message is being handled (the context of cl.user_session)
    stash           \* the state of the other session, as its last message left it

vars == <<user_role, user_data, msg, branch, acted, response, is_completed,
          handed, reached_end, delivered, router_input, oracle, routing_result,
          keyword_call, questions_parsed, extraction_route, completion, extraction, collected_fields, turn,
          service_manager, now, service_call, current, stash>>

contextVars == <<current, stash>>

serviceVars == <<service_manager, now, service_call>>

routerVars == <<router_input, oracle, routing_result>>

extractorVars == <<extraction_route, completion, extraction, collected_fields, turn>>

sessionVars == <<user_role, user_data, msg, branch, acted, response,
                 is_completed, handed, reached_end, delivered>>

----------------------------------------------------------------------------
(* Bounds *)

\* number of questions (schema fields) loaded for each domain
NumCompensationQuestions == 2
NumPolicyQuestions == 1

----------------------------------------------------------------------------
(* Text *)

S_empty == << >>
S_blank == <<" ", " ">>
S_Yes_padded == <<" ", "Y", "e", "s", " ">>
S_yes == <<"y", "e", "s">>
S_y == <<"y">>
S_confirm == <<"c", "o", "n", "f", "i", "r", "m">>
S_confirmed == <<"c", "o", "n", "f", "i", "r", "m", "e", "d">>
S_correct == <<"c", "o", "r", "r", "e", "c", "t">>
S_ok == <<"o", "k">>
S_okay == <<"o", "k", "a", "y">>
S_no == <<"n", "o">>
S_n == <<"n">>
S_edit == <<"e", "d", "i", "t">>
S_change == <<"c", "h", "a", "n", "g", "e">>
S_incorrect == <<"i", "n", "c", "o", "r", "r", "e", "c", "t">>
S_wrong == <<"w", "r", "o", "n", "g">>
S_start == <<"s", "t", "a", "r", "t">>
S_sure == <<"s", "u", "r", "e">>
S_proceed == <<"p", "r", "o", "c", "e", "e", "d">>
S_not == <<"n", "o", "t">>
S_not_sure == S_not \o <<" ">> \o S_sure
S_different == <<"d", "i", "f", "f", "e", "r", "e", "n", "t">>
S_policy == <<"p", "o", "l", "i", "c", "y">>
S_compensation == <<"c", "o", "m", "p", "e", "n", "s", "a", "t", "i", "o", "n">>
S_1 == <<"1">>
S_2 == <<"2">>
S_users == <<"/", "u", "s", "e", "r", "s">>
S_help == <<"/", "h", "e", "l", "p">>
S_history == <<"/", "h", "i", "s", "t", "o", "r", "y">>
S_salary == <<"s", "a", "l", "a", "r", "y">>
S_Salary_padded == <<" ", "S", "a", "l", "a", "r", "y">>
S_pay == <<"p", "a", "y">>
S_money == <<"m", "o", "n", "e", "y">>
S_cost == <<"c", "o", "s", "t">>
S_compensation_calculator == S_compensation \o <<" ", "c", "a", "l", "c", "u", "l", "a", "t", "o", "r">>
S_policies == <<"p", "o", "l", "i", "c", "i", "e", "s">>
S_visa == <<"v", "i", "s", "a">>
S_immigration == <<"i", "m", "m", "i", "g", "r", "a", "t", "i", "o", "n">>
S_compliance == <<"c", "o", "m", "p", "l", "i", "a", "n", "c", "e">>
S_policy_analyzer == S_policy \o <<" ", "a", "n", "a", "l", "y", "z", "e", "r">>
S_who_are_you == <<"w", "h", "o", " ", "a", "r", "e", " ", "y", "o", "u">>
S_what_can_you_do == <<"w", "h", "a", "t", " ", "c", "a", "n", " ", "y", "o", "u", " ", "d", "o">>
S_help_me == <<"h", "e", "l", "p", " ", "m", "e">>
S_what_else == <<"w", "h", "a", "t", " ", "e", "l", "s", "e">>
S_Please_help_me == <<"P", "l", "e", "a", "s", "e", " ">> \o S_help_me
S_salary_policy == S_salary \o <<" ">> \o S_policy
S_General_inquiry == <<"G", "e", "n", "e", "r", "a", "l", " ", "i", "n", "q", "u", "i", "r", "y">>
S_allowance == <<"a", "l", "l", "o", "w", "a", "n", "c", "e">>
S_cheapest == <<"c", "h", "e", "a", "p", "e", "s", "t">>
S_optimal == <<"o", "p", "t", "i", "m", "a", "l">>
S_best == <<"b", "e", "s", "t">>
S_help_word == <<"h", "e", "l", "p">>
S_best_visa == S_best \o <<" ">> \o S_visa

\* the characters str.strip() removes among those that occur in the model
Whitespace == {" "}

\* str.lower() on one character
LowerChar(c) ==
    CASE c = "Y" -> "y"
      [] c = "S" -> "s"
      [] c = "G" -> "g"
      [] c = "P" -> "p"
      [] c = "H" -> "h"
      [] OTHER -> c

\* str.lower()
Lower(s) == [i \in 1..Len(s) |-> LowerChar(s[i])]

\* str.strip(): drop leading and trailing whitespace
Strip(s) ==
    LET idx == {i \in 1..Len(s) : s[i] \notin Whitespace}
    IN  IF idx = {} THEN << >>
        ELSE LET lo == CHOOSE i \in idx : \A j \in idx : i <= j
                 hi == CHOOSE i \in idx : \A j \in idx : i >= j
             IN  SubSeq(s, lo, hi)

\* Python's `sub in s` on strings
Contains(sub, s) ==
    \E i \in 1..(Len(s) - Len(sub) + 1) : SubSeq(s, i, i + Len(sub) - 1) = sub

\* Python's any(word in s for word in words)
AnyIn(words, s) == \E w \in words : Contains(w, s)

----------------------------------------------------------------------------
(* Field schema and question lists *)

AgentTypes == {"compensation", "policy"}

NumQuestions(agent_type) ==
    IF agent_type = "compensation" THEN NumCompensationQuestions
    ELSE IF agent_type = "policy" THEN NumPolicyQuestions
    ELSE 0

\* ConversationalCollector.required_fields: the field names of each route, in order
AllRequiredFields(route) ==
    IF route = "compensation"
    THEN <<"Origin Location", "Destination Location", "Current Compensation",
           "Assignment Duration", "Job Level/Title", "Family Size",
           "Housing Preference">>
    ELSE IF route = "policy"
    THEN <<"Origin Country", "Destination Country", "Assignment Type",
           "Assignment Duration", "Job Title">>
    ELSE << >>

\* self.required_fields.get(route, {}), cut to the first NumQuestions(route) fields
required_fields(route) ==
    SubSeq(AllRequiredFields(route), 1, NumQuestions(route))

\* _load_agent_questions when both questions files are read and parsed
EveryFileParsed == [agent_type \in AgentTypes |-> TRUE]

\* InputCollector.agent_questions: the titles of the questions of agent_type,
\* one question per schema field in registry order; _parse_questions_file
\* returns [] for a file it cannot read
agent_questions(agent_type) ==
    IF agent_type \in AgentTypes /\ ~ questions_parsed[agent_type]
    THEN << >>
    ELSE required_fields(agent_type)

\* Python's len(questions)
LenQuestions(agent_type) == Len(agent_questions(agent_type))

----------------------------------------------------------------------------
(* Dictionaries: a dict is a function whose DOMAIN is its key set *)

EmptyDict == << >>

\* d[k] = v
DictSet(d, k, v) == [x \in (DOMAIN d) \cup {k} |-> IF x = k THEN v ELSE d[x]]

----------------------------------------------------------------------------
(* ConversationalCollector.is_complete *)

\* Python truthiness of a stored string
Truthy(value) == value /= << >>

\* variant of is_complete that accepts empty values
is_complete_ignores_empty(extracted_data, route) ==
    \A i \in 1..Len(required_fields(route)) :
        required_fields(route)[i] \in DOMAIN extracted_data

is_complete(extracted_data, route) ==
    \A i \in 1..Len(required_fields(route)) :
        LET field == required_fields(route)[i]
        IN  ~ (field \notin DOMAIN extracted_data \/ ~ Truthy(extracted_data[field]))

----------------------------------------------------------------------------
(* InputCollector: the sequential collector *)

collection_key(agent_type) ==
    IF agent_type = "compensation" THEN "compensation_collection"
    ELSE "policy_collection"

\* a session without the key `<agent_type>_collection`
NoCollection ==
    [present |-> FALSE, current_question |-> 0, answers |-> EmptyDict,
     completed |-> FALSE, awaiting_confirmation |-> FALSE]

\* variant of NewCollection that starts awaiting the confirmation
NewCollection_awaiting_confirmation ==
    [present |-> TRUE, current_question |-> 0, answers |-> EmptyDict,
     completed |-> FALSE, awaiting_confirmation |-> TRUE]

\* the dictionary start_collection stores; the key awaiting_confirmation is
\* absent from it and every reader uses .get('awaiting_confirmation', False)
NewCollection ==
    [present |-> TRUE, current_question |-> 0, answers |-> EmptyDict,
     completed |-> FALSE, awaiting_confirmation |-> FALSE]

\* the messages the collector returns, by kind
QuestionText(agent_type, index) ==
    [kind |-> "question", agent |-> agent_type, index |-> index, of |-> LenQuestions(agent_type)]
AllQuestionsCompleted == [kind |-> "all_questions_completed"]
CollectionAlreadyCompleted == [kind |-> "collection_already_completed"]
NotConfigured == [kind |-> "not_configured"]

_get_next_question(agent_type, user_session) ==
    LET collection_state == user_session[collection_key(agent_type)]
        current_q_index == collection_state.current_question
    IN  IF current_q_index >= LenQuestions(agent_type)
        THEN [message |-> AllQuestionsCompleted, session |-> user_session]
        ELSE [message |-> QuestionText(agent_type, current_q_index),
              session |-> user_session]

\* variant of start_collection that replaces an existing collection
start_collection_replaces_existing(agent_type, user_session) ==
    IF agent_type \notin AgentTypes
    THEN [message |-> NotConfigured, session |-> user_session]
    ELSE LET key == collection_key(agent_type)
             session1 == [user_session EXCEPT ![key] = NewCollection]
         IN  _get_next_question(agent_type, session1)

start_collection(agent_type, user_session) ==
    IF agent_type \notin AgentTypes
    THEN [message |-> NotConfigured, session |-> user_session]
    ELSE LET key == collection_key(agent_type)
             session1 == IF ~ user_session[key].present
                         THEN [user_session EXCEPT ![key] = NewCollection]
                         ELSE user_session
         IN  _get_next_question(agent_type, session1)

\* the summary: a header naming the agent, one bullet line per item of
\* answers, and the request to confirm with its two instructions
_generate_confirmation_summary(agent_type, answers) ==
    [kind |-> "confirmation_summary", agent |-> agent_type, answers |-> answers,
     bullets |-> {[field |-> key, value |-> answers[key]] : key \in DOMAIN answers},
     request |-> "Is all this information correct?",
     oracle_calls |-> 0]

_generate_completion_message(agent_type, answers) ==
    [kind |-> "completion", agent |-> agent_type]

EditMessage(next_question) == [kind |-> "edit", then |-> next_question]
InvalidMessage(user_input) == [kind |-> "invalid", input |-> user_input]

\* variant of ConfirmWords that also accepts "policy"
ConfirmWords_with_policy ==
    {S_yes, S_y, S_confirm, S_confirmed, S_correct, S_ok, S_okay, S_policy}

ConfirmWords == {S_yes, S_y, S_confirm, S_confirmed, S_correct, S_ok, S_okay}

\* variant of RejectWords that also accepts "policy"
RejectWords_with_policy ==
    {S_no, S_n, S_edit, S_change, S_incorrect, S_wrong, S_policy}

RejectWords == {S_no, S_n, S_edit, S_change, S_incorrect, S_wrong}

\* variant of ConfirmCollection that leaves awaiting_confirmation set
ConfirmCollection_keeps_awaiting(collection_state) ==
    [collection_state EXCEPT !.completed = TRUE]

\* lines 333-334: the affirmative reply
ConfirmCollection(collection_state) ==
    [collection_state EXCEPT !.completed = TRUE, !.awaiting_confirmation = FALSE]

\* variant of ResetForEdit that also drops the answers
ResetForEdit_clears_answers(collection_state) ==
    [collection_state EXCEPT !.current_question = 0, !.awaiting_confirmation = FALSE,
                             !.answers = EmptyDict]

\* lines 341-342: the negative reply; the answers are kept
ResetForEdit(collection_state) ==
    [collection_state EXCEPT !.current_question = 0, !.awaiting_confirmation = FALSE]

_handle_confirmation_response(agent_type, user_input, user_session) ==
    LET key == collection_key(agent_type)
        user_response == Strip(Lower(user_input))
    IN  IF user_response \in ConfirmWords
        THEN LET session1 == [user_session EXCEPT ![key] = ConfirmCollection(@)]
             IN  [message |-> _generate_completion_message(agent_type, session1[key].answers),
                  session |-> session1, is_completed |-> TRUE, arity |-> 3]
        ELSE IF user_response \in RejectWords
        THEN LET session1 == [user_session EXCEPT ![key] = ResetForEdit(@)]
                 next == _get_next_question(agent_type, session1)
             IN  [message |-> EditMessage(next.message), session |-> next.session,
                  is_completed |-> FALSE, arity |-> 3]
        ELSE [message |-> InvalidMessage(user_input), session |-> user_session,
              is_completed |-> FALSE, arity |-> 3]

\* variant of StoreAnswer that stores the input without strip()
StoreAnswer_untrimmed(collection_state, title, user_input) ==
    [collection_state EXCEPT !.answers = DictSet(@, title, user_input),
                             !.current_question = @ + 1]

\* lines 258-261: store the trimmed answer and move to the next question
StoreAnswer(collection_state, title, user_input) ==
    [collection_state EXCEPT !.answers = DictSet(@, title, Strip(user_input)),
                             !.current_question = @ + 1]

\* variant of AllAnswered that asks for one answer more
AllAnswered_one_more(collection_state, questions) ==
    collection_state.current_question > Len(questions)

\* line 264: collection_state['current_question'] >= len(questions)
AllAnswered(collection_state, questions) ==
    collection_state.current_question >= Len(questions)

\* process_answer; when the collection is absent the code returns the
\* two-element result of start_collection (arity 2, no is_completed)
process_answer(agent_type, user_input, user_session) ==
    LET key == collection_key(agent_type)
        collection_state == user_session[key]
    IN  IF ~ collection_state.present
        THEN LET started == start_collection(agent_type, user_session)
             IN  [message |-> started.message, session |-> started.session,
                  is_completed |-> FALSE, arity |-> 2]
        ELSE IF collection_state.awaiting_confirmation
        THEN _handle_confirmation_response(agent_type, user_input, user_session)
        ELSE LET current_q_index == collection_state.current_question
                 questions == agent_questions(agent_type)
             IN  IF current_q_index >= Len(questions)
                 THEN [message |-> CollectionAlreadyCompleted, session |-> user_session,
                       is_completed |-> TRUE, arity |-> 3]
                 ELSE LET title == questions[current_q_index + 1]
                          session1 == [user_session EXCEPT
                                         ![key] = StoreAnswer(@, title, user_input)]
                      IN  IF AllAnswered(session1[key], questions)
                          THEN [message |-> _generate_confirmation_summary(agent_type, session1[key].answers),
                                session |-> [session1 EXCEPT ![key].awaiting_confirmation = TRUE],
                                is_completed |-> FALSE, arity |-> 3]
                          ELSE LET next == _get_next_question(agent_type, session1)
                               IN  [message |-> next.message, session |-> next.session,
                                    is_completed |-> FALSE, arity |-> 3]

\* variant of get_collected_data that returns the answers of every collection
get_collected_data_ignores_completed(agent_type, user_session) ==
    LET key == collection_key(agent_type)
    IN  IF user_session[key].present
        THEN [has_data |-> TRUE, data |-> user_session[key].answers]
        ELSE [has_data |-> FALSE, data |-> EmptyDict]

\* None is modelled as has_data = FALSE
get_collected_data(agent_type, user_session) ==
    LET key == collection_key(agent_type)
    IN  IF user_session[key].present /\ user_session[key].completed
        THEN [has_data |-> TRUE, data |-> user_session[key].answers]
        ELSE [has_data |-> FALSE, data |-> EmptyDict]

\* variant of is_collection_in_progress that ignores completed
is_collection_in_progress_ignores_completed(agent_type, user_session) ==
    user_session[collection_key(agent_type)].present

is_collection_in_progress(agent_type, user_session) ==
    LET key == collection_key(agent_type)
    IN  user_session[key].present /\ ~ user_session[key].completed

----------------------------------------------------------------------------
(* EnhancedAgentRouter.route_query *)

Destinations == {"compensation", "policy", "both_policy_and_compensation", "guidance_fallback"}

\* what the oracle may name as destination: one of the four names, the
\* value None, or any other string
OracleDestinations == Destinations \cup {"None", "unknown_route"}

\* behaviours of self.router_chain.invoke({"input": user_input}):
\*   raises        the call raises an exception
\*   not_dict      it returns a value that is not a dict
\*   wrapped       it returns {"destination_and_inputs": {...}}
\*   wrapped_other it returns {"destination_and_inputs": v} with v not a dict
\*   bare          it returns a dict without the key "destination_and_inputs"
\* has_destination tells whether the inner dict has the key "destination"
OracleOutcomes ==
    {[kind |-> "raises", has_destination |-> FALSE, destination |-> "None"],
     [kind |-> "not_dict", has_destination |-> FALSE, destination |-> "None"],
     [kind |-> "wrapped_other", has_destination |-> FALSE, destination |-> "None"]}
    \cup [kind : {"wrapped", "bare"}, has_destination : {TRUE}, destination : OracleDestinations]
    \cup [kind : {"wrapped", "bare"}, has_destination : {FALSE}, destination : {"None"}]

DirectCompensation == {S_compensation, S_salary, S_pay, S_money, S_cost, S_compensation_calculator}
DirectPolicy == {S_policy, S_policies, S_visa, S_immigration, S_compliance, S_policy_analyzer}
\* variant of HelpPhrases that lacks the phrase "help me"
HelpPhrases_without_help_me == {S_who_are_you, S_what_can_you_do, S_what_else}

HelpPhrases == {S_who_are_you, S_what_can_you_do, S_help_me, S_what_else}

\* variant of LLMDestination that leaves the destination unset when the oracle raises
LLMDestination_unset_on_raise(o) ==
    IF o.kind = "raises" THEN "None"
    ELSE IF o.kind = "not_dict" THEN "guidance_fallback"
    ELSE IF o.kind = "wrapped_other" THEN "guidance_fallback"
    ELSE IF o.has_destination THEN o.destination
    ELSE "guidance_fallback"

\* the else-branch of route_query: the inner try around the oracle call
LLMDestination(o) ==
    IF o.kind = "raises" THEN "guidance_fallback"
    ELSE IF o.kind = "not_dict" THEN "guidance_fallback"
    ELSE IF o.kind = "wrapped_other" THEN "guidance_fallback"  \* .get raises, caught
    ELSE IF o.has_destination THEN o.destination
    ELSE "guidance_fallback"

\* route_query reaches the else-branch that calls self.router_chain.invoke
ReachesOracle(user_input_lower) ==
    /\ user_input_lower \notin DirectCompensation
    /\ user_input_lower \notin DirectPolicy
    /\ ~ AnyIn(HelpPhrases, user_input_lower)

\* the result dict of route_query; oracle_calls counts the calls of
\* router_chain.invoke made on the way, has_error is the presence of the
\* key "error", raised tells whether an exception left route_query
route_query(user_input, o) ==
    LET user_input_lower == Strip(Lower(user_input))
        destination ==
            IF user_input_lower \in DirectCompensation THEN "compensation"
            ELSE IF user_input_lower \in DirectPolicy THEN "policy"
            ELSE IF AnyIn(HelpPhrases, user_input_lower) THEN "guidance_fallback"
            ELSE LLMDestination(o)
    IN  [destination |-> destination, next_inputs |-> user_input,
         has_route_info |-> destination \in Destinations,
         success |-> TRUE, has_error |-> FALSE, routing_method |-> "llm",
         oracle_calls |-> IF ReachesOracle(user_input_lower) THEN 1 ELSE 0,
         raised |-> FALSE]

----------------------------------------------------------------------------
(* EnhancedAgentRouter._keyword_based_routing *)

\* self.config["routing_keywords"]: the routes in the order of the
\* configuration, each with its keyword list
routing_keywords ==
    << [route |-> "compensation",
        keywords |-> <<S_salary, S_pay, S_compensation, S_allowance>>],
       [route |-> "policy",
        keywords |-> <<S_policy, S_visa, S_compliance, S_immigration>>],
       [route |-> "both_policy_and_compensation",
        keywords |-> <<S_cheapest, S_optimal, S_best>>],
       [route |-> "guidance_fallback",
        keywords |-> <<S_help_word, S_what_can_you_do>>] >>

\* len(keyword.split()): the number of maximal runs of non-whitespace
WordCount(keyword) ==
    Cardinality({i \in 1..Len(keyword) :
                    /\ keyword[i] \notin Whitespace
                    /\ (i = 1 \/ keyword[i - 1] \in Whitespace)})

\* variant of KeywordWeight that gives every matching keyword the weight 1
KeywordWeight_flat(keyword) == 1

\* the weight one matching keyword adds to the score of its route
KeywordWeight(keyword) ==
    IF WordCount(keyword) > 1 THEN 3
    ELSE IF Len(keyword) > 6 THEN 2
    ELSE 1

RECURSIVE KeywordScore(_, _, _)
\* the score of a route: the inner loop over its first n keywords
KeywordScore(keywords, user_input_lower, n) ==
    IF n = 0 THEN 0
    ELSE KeywordScore(keywords, user_input_lower, n - 1)
         + (IF Contains(keywords[n], user_input_lower)
            THEN KeywordWeight(keywords[n]) ELSE 0)

\* keyword_scores: the score of the i-th configured route, 0 for a route
\* that gets no entry
keyword_scores(user_input_lower) ==
    [i \in 1..Len(routing_keywords) |->
        KeywordScore(routing_keywords[i].keywords, user_input_lower,
                     Len(routing_keywords[i].keywords))]

\* variant of _keyword_based_routing that returns the last of the entries
\* whose score is the highest
_keyword_based_routing_last_on_tie(user_input) ==
    LET scores == keyword_scores(Lower(user_input))
        entries == {i \in DOMAIN scores : scores[i] > 0}
    IN  IF entries = {} THEN "None"
        ELSE LET best == CHOOSE i \in entries :
                            /\ \A j \in entries : scores[j] <= scores[i]
                            /\ \A j \in entries : j > i => scores[j] < scores[i]
             IN  routing_keywords[best].route

\* max(keyword_scores, key=keyword_scores.get): the first entry, in
\* insertion order, whose score is the highest; None without any entry
_keyword_based_routing(user_input) ==
    LET scores == keyword_scores(Lower(user_input))
        entries == {i \in DOMAIN scores : scores[i] > 0}
    IN  IF entries = {} THEN "None"
        ELSE LET best == CHOOSE i \in entries :
                            /\ \A j \in entries : scores[j] <= scores[i]
                            /\ \A j \in entries : j < i => scores[j] < scores[i]
             IN  routing_keywords[best].route

\* before is the call made before the last one
NoKeywordCall ==
    [called |-> FALSE, user_input |-> << >>, route |-> "None",
     before |-> [called |-> FALSE, user_input |-> << >>, route |-> "None"]]

\* get_route_display_info evaluates route_name.replace(...) eagerly and so
\* raises AttributeError when route_name is None
DisplayInfoRaises(route_name) == route_name = "None"

----------------------------------------------------------------------------
(* ConversationalCollector.extract_information *)

\* JSON documents the oracle may emit
D_nyc ==
    <<"{", "\"", "e", "x", "t", "r", "a", "c", "t", "e", "d", "_", "f", "i",
      "e", "l", "d", "s", "\"", ":", "{", "\"", "O", "r", "i", "g", "i", "n",
      " ", "L", "o", "c", "a", "t", "i", "o", "n", "\"", ":", "\"", "N", "Y",
      "C", "\"", ",", "\"", "D", "e", "s", "t", "i", "n", "a", "t", "i", "o",
      "n", " ", "L", "o", "c", "a", "t", "i", "o", "n", "\"", ":", "n", "u",
      "l", "l", "}", ",", "\"", "c", "o", "n", "f", "i", "d", "e", "n", "c",
      "e", "\"", ":", "{", "\"", "O", "r", "i", "g", "i", "n", " ", "L", "o",
      "c", "a", "t", "i", "o", "n", "\"", ":", "0", ".", "9", "}", ",", "\"",
      "m", "i", "s", "s", "i", "n", "g", "_", "f", "i", "e", "l", "d", "s",
      "\"", ":", "[", "\"", "D", "e", "s", "t", "i", "n", "a", "t", "i", "o",
      "n", " ", "L", "o", "c", "a", "t", "i", "o", "n", "\"", "]", ",", "\"",
      "c", "l", "a", "r", "i", "f", "i", "c", "a", "t", "i", "o", "n", "s",
      "_", "n", "e", "e", "d", "e", "d", "\"", ":", "[", "]", "}">>
D_london ==
    <<"{", "\"", "e", "x", "t", "r", "a", "c", "t", "e", "d", "_", "f", "i",
      "e", "l", "d", "s", "\"", ":", "{", "\"", "O", "r", "i", "g", "i", "n",
      " ", "L", "o", "c", "a", "t", "i", "o", "n", "\"", ":", "\"", "\"",
      ",", "\"", "D", "e", "s", "t", "i", "n", "a", "t", "i", "o", "n", " ",
      "L", "o", "c", "a", "t", "i", "o", "n", "\"", ":", "\"", "L", "o", "n",
      "d", "o", "n", "\"", "}", ",", "\"", "c", "o", "n", "f", "i", "d", "e",
      "n", "c", "e", "\"", ":", "{", "}", ",", "\"", "m", "i", "s", "s", "i",
      "n", "g", "_", "f", "i", "e", "l", "d", "s", "\"", ":", "[", "]", ",",
      "\"", "c", "l", "a", "r", "i", "f", "i", "c", "a", "t", "i", "o", "n",
      "s", "_", "n", "e", "e", "d", "e", "d", "\"", ":", "[", "]", "}">>
D_boston ==
    <<"{", "\"", "e", "x", "t", "r", "a", "c", "t", "e", "d", "_", "f", "i",
      "e", "l", "d", "s", "\"", ":", "{", "\"", "O", "r", "i", "g", "i", "n",
      " ", "L", "o", "c", "a", "t", "i", "o", "n", "\"", ":", "\"", "B", "o",
      "s", "t", "o", "n", "\"", ",", "\"", "D", "e", "s", "t", "i", "n", "a",
      "t", "i", "o", "n", " ", "L", "o", "c", "a", "t", "i", "o", "n", "\"",
      ":", "n", "u", "l", "l", "}", ",", "\"", "c", "o", "n", "f", "i", "d",
      "e", "n", "c", "e", "\"", ":", "{", "}", ",", "\"", "m", "i", "s", "s",
      "i", "n", "g", "_", "f", "i", "e", "l", "d", "s", "\"", ":", "[", "]",
      ",", "\"", "c", "l", "a", "r", "i", "f", "i", "c", "a", "t", "i", "o",
      "n", "s", "_", "n", "e", "e", "d", "e", "d", "\"", ":", "[", "]", "}">>
D_fields_only ==
    <<"{", "\"", "e", "x", "t", "r", "a", "c", "t", "e", "d", "_", "f", "i",
      "e", "l", "d", "s", "\"", ":", "{", "\"", "O", "r", "i", "g", "i", "n",
      " ", "L", "o", "c", "a", "t", "i", "o", "n", "\"", ":", "0", "}", "}">>
D_empty_object == <<"{", "}">>
D_policy ==
    <<"{", "\"", "e", "x", "t", "r", "a", "c", "t", "e", "d", "_", "f", "i",
      "e", "l", "d", "s", "\"", ":", "{", "\"", "O", "r", "i", "g", "i", "n",
      " ", "C", "o", "u", "n", "t", "r", "y", "\"", ":", "\"", "U", "S", "A",
      "\"", ",", "\"", "N", "o", "t", "e", "s", "\"", ":", "\"", "u", "r",
      "g", "e", "n", "t", "\"", "}", ",", "\"", "c", "o", "n", "f", "i", "d",
      "e", "n", "c", "e", "\"", ":", "{", "}", ",", "\"", "m", "i", "s", "s",
      "i", "n", "g", "_", "f", "i", "e", "l", "d", "s", "\"", ":", "[", "]",
      ",", "\"", "c", "l", "a", "r", "i", "f", "i", "c", "a", "t", "i", "o",
      "n", "s", "_", "n", "e", "e", "d", "e", "d", "\"", ":", "[", "]", "}">>

\* further response texts: empty, prose without braces, braces in the
\* wrong order, an opening brace only, braces around prose, two objects,
\* and a document between commentary
T_empty == << >>
T_prose == <<"S", "o", "r", "r", "y">>
T_reversed == <<"}", " ", "{">>
T_unclosed == <<"{", "\"", "a", "\"", ":">>
T_braces_prose == <<"{", "o", "o", "p", "s", "}">>
T_two_objects == <<"{", "}", " ", "{", "}">>
T_nyc_with_commentary ==
    <<"H", "e", "r", "e", ":", " ">>
    \o D_nyc
    \o <<" ", "o", "k">>

\* the values of response.choices[0].message.content that are strings
ResponseTexts ==
    {T_empty, T_prose, T_reversed, T_unclosed, T_braces_prose, T_two_objects,
     T_nyc_with_commentary, D_nyc, D_london, D_boston, D_fields_only,
     D_empty_object, D_policy}

\* behaviours of self.client.chat.completions.create(...):
\*   raises  the call raises (network failure, timeout)
\*   none    it returns a message whose content is None
\*   text    it returns a message whose content is the string text
Completions ==
    {[kind |-> "raises", text |-> << >>], [kind |-> "none", text |-> << >>]}
    \cup [kind : {"text"}, text : ResponseTexts]

\* str.find(c): 0-based index of the first occurrence, -1 without one
Find(s, c) ==
    LET idx == {i \in 1..Len(s) : s[i] = c}
    IN  IF idx = {} THEN -1
        ELSE (CHOOSE i \in idx : \A j \in idx : i <= j) - 1

\* str.rfind(c): 0-based index of the last occurrence, -1 without one
RFind(s, c) ==
    LET idx == {i \in 1..Len(s) : s[i] = c}
    IN  IF idx = {} THEN -1
        ELSE (CHOOSE i \in idx : \A j \in idx : i >= j) - 1

\* an index of a Python slice, clamped into 0..len
SliceIndex(i, n) ==
    IF i < 0 THEN (IF i + n < 0 THEN 0 ELSE i + n)
    ELSE IF i > n THEN n ELSE i

\* Python's s[a:b]
Slice(s, a, b) ==
    LET lo == SliceIndex(a, Len(s))
        hi == SliceIndex(b, Len(s))
    IN  IF lo >= hi THEN << >> ELSE SubSeq(s, lo + 1, hi)

\* JSON values of fields: null, a string, or a number
JsonNull == [kind |-> "null", text |-> << >>]
JsonString(text) == [kind |-> "string", text |-> text]
JsonNumber(text) == [kind |-> "number", text |-> text]

\* the strings and the number that occur as values
S_NYC == <<"N", "Y", "C">>
S_London == <<"L", "o", "n", "d", "o", "n">>
S_Boston == <<"B", "o", "s", "t", "o", "n">>
S_0 == <<"0">>
S_USA == <<"U", "S", "A">>
S_urgent == <<"u", "r", "g", "e", "n", "t">>

\* Python truthiness of a JSON value: None, "" and 0 are falsy
TruthyValue(value) ==
    /\ value.kind /= "null"
    /\ value.text /= << >>
    /\ ~ (value.kind = "number" /\ value.text = S_0)

\* the texts json.loads accepts among the slices of ResponseTexts
JsonDocuments ==
    {D_nyc, D_london, D_boston, D_fields_only, D_empty_object, D_policy}

\* the dict json.loads(json_str) returns: members is its key set, the
\* other fields are the values of the keys it has
json_loads(json_str) ==
    CASE json_str = D_nyc ->
            [raised |-> FALSE,
             members |-> {"extracted_fields", "confidence", "missing_fields",
                          "clarifications_needed"},
             extracted_fields |->
                 [f \in {"Origin Location", "Destination Location"} |->
                     IF f = "Origin Location" THEN JsonString(S_NYC) ELSE JsonNull],
             confidence |-> [f \in {"Origin Location"} |-> "0.9"],
             missing_fields |-> <<"Destination Location">>,
             clarifications_needed |-> << >>]
      [] json_str = D_london ->
            [raised |-> FALSE,
             members |-> {"extracted_fields", "confidence", "missing_fields",
                          "clarifications_needed"},
             extracted_fields |->
                 [f \in {"Origin Location", "Destination Location"} |->
                     IF f = "Origin Location" THEN JsonString(<< >>)
                     ELSE JsonString(S_London)],
             confidence |-> << >>,
             missing_fields |-> << >>,
             clarifications_needed |-> << >>]
      [] json_str = D_boston ->
            [raised |-> FALSE,
             members |-> {"extracted_fields", "confidence", "missing_fields",
                          "clarifications_needed"},
             extracted_fields |->
                 [f \in {"Origin Location", "Destination Location"} |->
                     IF f = "Origin Location" THEN JsonString(S_Boston) ELSE JsonNull],
             confidence |-> << >>,
             missing_fields |-> << >>,
             clarifications_needed |-> << >>]
      [] json_str = D_fields_only ->
            [raised |-> FALSE,
             members |-> {"extracted_fields"},
             extracted_fields |-> [f \in {"Origin Location"} |-> JsonNumber(S_0)],
             confidence |-> << >>,
             missing_fields |-> << >>,
             clarifications_needed |-> << >>]
      [] json_str = D_policy ->
            [raised |-> FALSE,
             members |-> {"extracted_fields", "confidence", "missing_fields",
                          "clarifications_needed"},
             extracted_fields |->
                 [f \in {"Origin Country", "Notes"} |->
                     IF f = "Origin Country" THEN JsonString(S_USA)
                     ELSE JsonString(S_urgent)],
             confidence |-> << >>,
             missing_fields |-> << >>,
             clarifications_needed |-> << >>]
      [] json_str = D_empty_object ->
            [raised |-> FALSE,
             members |-> {},
             extracted_fields |-> << >>,
             confidence |-> << >>,
             missing_fields |-> << >>,
             clarifications_needed |-> << >>]
      [] OTHER ->
            [raised |-> TRUE,
             members |-> {},
             extracted_fields |-> << >>,
             confidence |-> << >>,
             missing_fields |-> << >>,
             clarifications_needed |-> << >>]

\* the routes extract_information is called with; "relocation" has no
\* entry in required_fields
ExtractionRoutes == {"compensation", "policy", "relocation"}

\* variant of DefaultResult that reports no missing field
DefaultResult_nothing_missing(route) ==
    [raised |-> FALSE,
     members |-> {"extracted_fields", "confidence", "missing_fields",
                  "clarifications_needed"},
     extracted_fields |-> << >>,
     confidence |-> << >>,
     missing_fields |-> << >>,
     clarifications_needed |-> << >>]

\* the dict returned by the except branch of extract_information
DefaultResult(route) ==
    [raised |-> FALSE,
     members |-> {"extracted_fields", "confidence", "missing_fields",
                  "clarifications_needed"},
     extracted_fields |-> << >>,
     confidence |-> << >>,
     missing_fields |-> required_fields(route),
     clarifications_needed |-> << >>]

\* an exception leaves extract_information
ExtractionRaised ==
    [raised |-> TRUE,
     members |-> {},
     extracted_fields |-> << >>,
     confidence |-> << >>,
     missing_fields |-> << >>,
     clarifications_needed |-> << >>]

\* extract_information(route, user_message, conversation_history) for the
\* behaviour c of the oracle call; the call is made outside the try block,
\* the parsing inside it
extract_information(route, c) ==
    IF c.kind = "raises" THEN ExtractionRaised
    ELSE IF c.kind = "none" THEN DefaultResult(route)  \* None.find raises, caught
    ELSE LET result_text == c.text
             start_idx == Find(result_text, "{")
             end_idx == RFind(result_text, "}") + 1
             json_str == Slice(result_text, start_idx, end_idx)
             result == json_loads(json_str)
         IN  IF result.raised THEN DefaultResult(route) ELSE result

\* variant of is_complete_values that accepts every key that is present
is_complete_values_accepts_falsy(extracted_data, route) ==
    \A i \in 1..Len(required_fields(route)) :
        required_fields(route)[i] \in DOMAIN extracted_data

\* ConversationalCollector.is_complete on a map of JSON values
is_complete_values(extracted_data, route) ==
    \A i \in 1..Len(required_fields(route)) :
        LET field == required_fields(route)[i]
        IN  ~ (field \notin DOMAIN extracted_data \/ ~ TruthyValue(extracted_data[field]))

\* variant of _generate_confirmation_message that lists every field
_generate_confirmation_message_lists_every_field(route, collected_data) ==
    [kind |-> "confirmation_message",
     data |-> collected_data,
     bullets |-> {[field |-> field, value |-> collected_data[field]] :
                     field \in DOMAIN collected_data},
     request |-> "Is this information correct?",
     oracle_calls |-> 0]

\* ConversationalCollector._generate_confirmation_message: the heading,
\* one bullet line per item with a truthy value, and the closing request
_generate_confirmation_message(route, collected_data) ==
    [kind |-> "confirmation_message",
     data |-> collected_data,
     bullets |-> {[field |-> field, value |-> collected_data[field]] :
                     field \in {f \in DOMAIN collected_data : TruthyValue(collected_data[f])}},
     request |-> "Is this information correct?",
     oracle_calls |-> 0]

\* behaviours of the oracle call of generate_follow_up
FollowUpOutcomes == {"text", "raises"}

\* ConversationalCollector.generate_follow_up for the behaviour o of its
\* oracle call; the message of the oracle is free prose
generate_follow_up(route, extracted_data, missing_fields, o) ==
    IF missing_fields = << >>
    THEN _generate_confirmation_message(route, extracted_data)
    ELSE [kind |-> IF o = "raises" THEN "raised" ELSE "follow_up",
          data |-> extracted_data,
          bullets |-> {},
          request |-> "",
          oracle_calls |-> 1]

\* variant of UpdateCollectedData that stores every extracted value
UpdateCollectedData_stores_every_value(data, extracted_fields) ==
    [f \in (DOMAIN data) \cup (DOMAIN extracted_fields) |->
        IF f \in DOMAIN extracted_fields THEN extracted_fields[f] ELSE data[f]]

\* for field, value in extraction["extracted_fields"].items():
\*     if value: collected_data[field] = value
UpdateCollectedData(data, extracted_fields) ==
    LET stored == {f \in DOMAIN extracted_fields : TruthyValue(extracted_fields[f])}
    IN  [f \in (DOMAIN data) \cup stored |->
            IF f \in stored THEN extracted_fields[f] ELSE data[f]]

----------------------------------------------------------------------------
(* main.py: handle_message *)

UserRoles == {"admin", "employee"}

\* msg.content of the messages a user sends in a session: an affirmative
\* reply to be lower-cased and trimmed, a negative reply, a choice of domain
\* and an admin command
MessageContents == {S_Yes_padded, S_no, S_policy, S_users}

\* the behaviours of the oracle a session meets: the call raises, or it
\* returns a wrapped result (the other kinds yield the same destinations)
SessionOracleOutcomes == {o \in OracleOutcomes : o.kind \in {"raises", "wrapped"}}

AdminCommands == {S_users, S_help, S_history}

\* the early return for admin commands
IsAdminCommand(content) ==
    content /= S_empty /\ user_role = "admin" /\ Lower(content) \in AdminCommands

\* user_query = msg.content or "General inquiry"
UserQuery(content) == IF content = S_empty THEN S_General_inquiry ELSE content

confirmation_flag(agent_type) ==
    IF agent_type = "compensation" THEN "awaiting_compensation_confirmation"
    ELSE "awaiting_policy_confirmation"

\* variant of StartWords that also accepts "policy"
StartWords_with_policy == {S_yes, S_start, S_ok, S_sure, S_proceed, S_policy}

StartWords == {S_yes, S_start, S_ok, S_sure, S_proceed}
DeclineWords == {S_no, S_not, S_different, S_wrong}

\* variant of in_compensation_collection that never sees the collection
in_compensation_collection_never == FALSE

in_compensation_collection == is_collection_in_progress("compensation", user_data)
in_policy_collection == is_collection_in_progress("policy", user_data)

\* what mcp_client.predict_compensation / analyze_policy does: it returns a
\* result whose status is success or error, it raises, or the request
\* times out (httpx raises after self.timeout)
MCPClientOutcomes == {"success", "error", "raises", "timeout"}

NoCalcResponse == [kind |-> "none", raised |-> FALSE]

\* variant of RunDownstream that does not look at the status of the result
RunDownstream_ignores_status(has_data, m) ==
    IF has_data /\ m \in {"success", "error"}
    THEN [kind |-> "results", raised |-> FALSE]
    ELSE [kind |-> "service_error", raised |-> FALSE]

\* the body shared by _run_compensation_calculation and _run_policy_analysis:
\* the results when the call returns status success; every exception (of
\* the call, the one raised for another status, the one of a lookup on
\* collected_data = None) is caught and answered with the "Sorry, I
\* encountered an error with the MCP ... service" message
RunDownstream(has_data, m) ==
    IF has_data /\ m = "success"
    THEN [kind |-> "results", raised |-> FALSE]
    ELSE [kind |-> "service_error", raised |-> FALSE]

_run_compensation_calculation(collected_data, m) ==
    RunDownstream(collected_data.has_data, m)

_run_policy_analysis(collected_data, m) ==
    RunDownstream(collected_data.has_data, m)

NotHanded ==
    [called |-> FALSE, agent |-> "none", has_data |-> FALSE, data |-> EmptyDict,
     downstream |-> "not_called", calc_response |-> NoCalcResponse]

ErrorMessage == [kind |-> "error"]

AdminCommand(content) ==
    /\ IsAdminCommand(content)
    /\ msg' = content
    /\ branch' = "admin"
    /\ acted' = {}
    /\ response' = [kind |-> "admin", command |-> Lower(content)]
    /\ is_completed' = FALSE
    /\ handed' = NotHanded
    /\ UNCHANGED <<user_role, user_data, reached_end, delivered>>
    /\ UNCHANGED <<router_input, oracle, routing_result>>
    /\ UNCHANGED extractorVars
    /\ UNCHANGED keyword_call
    /\ UNCHANGED questions_parsed
    /\ UNCHANGED contextVars
    /\ UNCHANGED serviceVars

\* lines 657-689: continue the collection in progress
ContinueCollection(agent_type, content, m) ==
    /\ ~ IsAdminCommand(content)
    /\ IF agent_type = "compensation"
       THEN in_compensation_collection
       ELSE ~ in_compensation_collection /\ in_policy_collection
    /\ LET key == collection_key(agent_type)
           r == process_answer(agent_type, UserQuery(content), user_data)
           collected_data == get_collected_data(agent_type, r.session)
       IN  /\ msg' = content
           /\ branch' = "collection"
           /\ acted' = {agent_type}
           /\ user_data' = r.session
           /\ reached_end' = [reached_end EXCEPT ![agent_type] =
                                @ \/ (/\ user_data[key].current_question < LenQuestions(agent_type)
                                      /\ r.session[key].current_question >= LenQuestions(agent_type))]
           /\ IF r.arity /= 3
              THEN \* unpacking a two-element result raises; caught at line 840
                   /\ response' = ErrorMessage
                   /\ is_completed' = FALSE
                   /\ handed' = NotHanded
                   /\ delivered' = delivered
              ELSE /\ response' = r.message
                   /\ is_completed' = r.is_completed
                   /\ handed' = IF r.is_completed
                                THEN [called |-> TRUE, agent |-> agent_type,
                                      has_data |-> collected_data.has_data,
                                      data |-> collected_data.data,
                                      downstream |-> m,
                                      calc_response |->
                                          IF agent_type = "compensation"
                                          THEN _run_compensation_calculation(collected_data, m)
                                          ELSE _run_policy_analysis(collected_data, m)]
                                ELSE NotHanded
                   /\ delivered' = IF r.is_completed /\ collected_data.has_data
                                   THEN delivered \cup {agent_type}
                                   ELSE delivered
    /\ UNCHANGED user_role
    /\ UNCHANGED <<router_input, oracle, routing_result>>
    /\ UNCHANGED extractorVars
    /\ UNCHANGED keyword_call
    /\ UNCHANGED questions_parsed
    /\ UNCHANGED contextVars
    /\ UNCHANGED serviceVars

\* lines 692-738: the reply to "start the questionnaire?"
\* variant of ClearFlag that leaves the flag set
ClearFlag_keeps_flag(user_session, flag) == user_session

\* lines 693, 718, 743: user_session[flag] = False
ClearFlag(user_session, flag) == [user_session EXCEPT ![flag] = FALSE]

ConfirmationResponse(agent_type, content) ==
    /\ ~ IsAdminCommand(content)
    /\ ~ in_compensation_collection /\ ~ in_policy_collection
    /\ user_data[confirmation_flag(agent_type)]
    /\ agent_type = "policy" => ~ user_data.awaiting_compensation_confirmation
    /\ LET flag == confirmation_flag(agent_type)
           user_response == Strip(Lower(UserQuery(content)))
           session0 == ClearFlag(user_data, flag)
           started == start_collection(agent_type, session0)
       IN  /\ msg' = content
           /\ branch' = "flag"
           /\ IF AnyIn(StartWords, user_response)
              THEN /\ user_data' = started.session
                   /\ acted' = {agent_type}
                   /\ response' = [kind |-> "starting", agent |-> agent_type,
                                   question |-> started.message]
              ELSE IF AnyIn(DeclineWords, user_response)
              THEN /\ user_data' = session0
                   /\ acted' = {}
                   /\ response' = [kind |-> "general_help"]
              ELSE /\ user_data' = [session0 EXCEPT ![flag] = TRUE]
                   /\ acted' = {}
                   /\ response' = [kind |-> "confirmation_not_understood", agent |-> agent_type]
    /\ is_completed' = FALSE
    /\ handed' = NotHanded
    /\ UNCHANGED <<user_role, reached_end, delivered>>
    /\ UNCHANGED <<router_input, oracle, routing_result>>
    /\ UNCHANGED extractorVars
    /\ UNCHANGED keyword_call
    /\ UNCHANGED questions_parsed
    /\ UNCHANGED contextVars
    /\ UNCHANGED serviceVars

\* lines 741-763: the reply to "policy or compensation first?"
BothChoiceResponse(content) ==
    /\ ~ IsAdminCommand(content)
    /\ ~ in_compensation_collection /\ ~ in_policy_collection
    /\ ~ user_data.awaiting_compensation_confirmation
    /\ ~ user_data.awaiting_policy_confirmation
    /\ user_data.awaiting_both_choice
    /\ LET user_choice == Strip(Lower(UserQuery(content)))
           session0 == ClearFlag(user_data, "awaiting_both_choice")
           chosen == IF Contains(S_policy, user_choice) \/ user_choice = S_1 THEN "policy"
                     ELSE IF Contains(S_compensation, user_choice) \/ user_choice = S_2
                     THEN "compensation"
                     ELSE "none"
           started == start_collection(chosen, session0)
       IN  /\ msg' = content
           /\ branch' = "flag"
           /\ IF chosen /= "none"
              THEN /\ user_data' = started.session
                   /\ acted' = {chosen}
                   /\ response' = [kind |-> "starting_with", agent |-> chosen,
                                   question |-> started.message]
              ELSE /\ user_data' = [session0 EXCEPT !.awaiting_both_choice = TRUE]
                   /\ acted' = {}
                   /\ response' = [kind |-> "choice_not_understood"]
    /\ is_completed' = FALSE
    /\ handed' = NotHanded
    /\ UNCHANGED <<user_role, reached_end, delivered>>
    /\ UNCHANGED <<router_input, oracle, routing_result>>
    /\ UNCHANGED extractorVars
    /\ UNCHANGED keyword_call
    /\ UNCHANGED questions_parsed
    /\ UNCHANGED contextVars
    /\ UNCHANGED serviceVars

\* lines 765-838: a new query is routed
\* variant of ShowGuidance that never marks the intro as shown
ShowGuidance_never_marks_shown(user_session) ==
    IF ~ user_session.intro_shown
    THEN [response |-> [kind |-> "intro_message"], session |-> user_session]
    ELSE [response |-> [kind |-> "helpful_message"], session |-> user_session]

\* lines 802-816: the guidance_fallback route shows the intro message once
\* per session and the shorter helpful message afterwards
ShowGuidance(user_session) ==
    IF ~ user_session.intro_shown
    THEN [response |-> [kind |-> "intro_message"],
          session |-> [user_session EXCEPT !.intro_shown = TRUE]]
    ELSE [response |-> [kind |-> "helpful_message"], session |-> user_session]

RouteNewQuery(content, o) ==
    /\ ~ IsAdminCommand(content)
    /\ ~ in_compensation_collection /\ ~ in_policy_collection
    /\ ~ user_data.awaiting_compensation_confirmation
    /\ ~ user_data.awaiting_policy_confirmation
    /\ ~ user_data.awaiting_both_choice
    /\ LET routed == route_query(UserQuery(content), o)
           route_name == routed.destination
       IN  /\ msg' = content
           /\ branch' = "route"
           /\ acted' = {}
           /\ IF DisplayInfoRaises(route_name)
              THEN /\ response' = ErrorMessage
                   /\ user_data' = user_data
              ELSE IF route_name \in AgentTypes
              THEN /\ response' = [kind |-> "confirmation_message", agent |-> route_name]
                   /\ user_data' = [user_data EXCEPT ![confirmation_flag(route_name)] = TRUE]
              ELSE IF route_name = "both_policy_and_compensation"
              THEN /\ response' = [kind |-> "both_choice_message"]
                   /\ user_data' = [user_data EXCEPT !.awaiting_both_choice = TRUE]
              ELSE IF route_name = "guidance_fallback"
              THEN /\ response' = ShowGuidance(user_data).response
                   /\ user_data' = ShowGuidance(user_data).session
              ELSE /\ response' = [kind |-> "route_response", destination |-> route_name]
                   /\ user_data' = user_data
    /\ is_completed' = FALSE
    /\ handed' = NotHanded
    /\ UNCHANGED <<user_role, reached_end, delivered>>
    /\ UNCHANGED <<router_input, oracle, routing_result>>
    /\ UNCHANGED extractorVars
    /\ UNCHANGED keyword_call
    /\ UNCHANGED questions_parsed
    /\ UNCHANGED contextVars
    /\ UNCHANGED serviceVars

handle_message(content) ==
    \/ AdminCommand(content)
    \/ \E agent_type \in AgentTypes, m \in MCPClientOutcomes :
          ContinueCollection(agent_type, content, m)
    \/ \E agent_type \in AgentTypes : ConfirmationResponse(agent_type, content)
    \/ BothChoiceResponse(content)
    \/ \E o \in SessionOracleOutcomes : RouteNewQuery(content, o)

----------------------------------------------------------------------------
(* The session: one user, one message at a time *)

NoRoutingResult ==
    [destination |-> "unset", next_inputs |-> S_empty, has_route_info |-> FALSE,
     success |-> FALSE, has_error |-> FALSE, routing_method |-> "unset",
     oracle_calls |-> 0, raised |-> FALSE]

NoOracle == [kind |-> "unset", has_destination |-> FALSE, destination |-> "None"]

NoCompletion == [kind |-> "unset", text |-> << >>]

\* no extract_information call has returned in the current turn
NoExtraction ==
    [raised |-> FALSE,
     members |-> {"unset"},
     extracted_fields |-> << >>,
     confidence |-> << >>,
     missing_fields |-> << >>,
     clarifications_needed |-> << >>]

\* no follow-up was generated
NoFollowUp ==
    [kind |-> "none", data |-> << >>, bullets |-> {}, request |-> "",
     oracle_calls |-> 0]

\* the turn has not reached the completion check
NoTurn == [checked |-> FALSE, is_complete |-> FALSE, follow_up |-> NoFollowUp]

\* no conversation with the extractor takes place
----------------------------------------------------------------------------
(* MCPServiceManager: the downstream prediction services and their fallback *)

Servers == {"compensation_server", "policy_server"}

\* ServiceHealthMonitor.cache_duration, in ticks of the clock
cache_duration == 2

\* the clock stops at MaxClock; a manager serves at most MaxCalls calls
MaxClock == 3

MaxCalls == 2

\* last_check = None
NeverChecked == -1

\* ServiceHealthMonitor.__init__
ServiceHealthMonitor ==
    [last_check |-> NeverChecked, last_status |-> [s \in Servers |-> FALSE]]

\* MCPServiceManager.__init__: when GlobalIQAgentSystem cannot be built the
\* manager has no agent_system and MCP is disabled
MCPServiceManager(enable_mcp, agent_system_built) ==
    [enable_mcp |-> enable_mcp /\ agent_system_built,
     agent_system |-> agent_system_built,
     health_monitor |-> ServiceHealthMonitor,
     stats |-> [mcp_calls |-> 0, fallback_calls |-> 0, errors |-> 0]]

\* variant of is_cache_valid that never lets the cached status expire
is_cache_valid_ignores_age(monitor, t) == monitor.last_check /= NeverChecked

is_cache_valid(monitor, t) ==
    /\ monitor.last_check /= NeverChecked
    /\ t - monitor.last_check < cache_duration

\* what asyncio.to_thread(agent_system.health_check) does: it raises, or it
\* returns the status of the two servers
HealthCheckOutcomes ==
    {[kind |-> "raises", status |-> [s \in Servers |-> FALSE]]}
        \cup {[kind |-> "status", status |-> st] : st \in [Servers -> BOOLEAN]}

check_health(monitor, t, fresh) ==
    IF is_cache_valid(monitor, t)
    THEN [health |-> monitor.last_status, monitor |-> monitor, contacted |-> FALSE]
    ELSE IF fresh.kind = "raises"
         THEN [health |-> monitor.last_status, monitor |-> monitor,
               contacted |-> TRUE]
         ELSE [health |-> fresh.status,
               monitor |-> [last_check |-> t, last_status |-> fresh.status],
               contacted |-> TRUE]

\* what the call of the downstream service does: it returns a result whose
\* status is success (with a payload the formatter accepts, or one on which
\* the formatter raises), a result whose status is error, a result without
\* a status, or it raises
DownstreamOutcomes ==
    {"success", "success_malformed", "error", "no_status", "raises"}

\* what the fallback's completion call does
FallbackOutcomes == {"text", "raises"}

\* variant of StatusIsSuccess that accepts every result that has a status
StatusIsSuccess_any_status(d) == d \in {"success", "success_malformed", "error"}

\* result.get("status") == "success"
StatusIsSuccess(d) == d \in {"success", "success_malformed"}

\* _format_compensation_response / _format_policy_response raise on the result
FormatterRaises(d) == d = "success_malformed"

Bump(stats, counter) == [stats EXCEPT ![counter] = @ + 1]

\* the body shared by predict_compensation and analyze_policy, for the
\* server of the operation: MCP first if enabled and healthy, the fallback
\* otherwise or when the MCP call fails
TryMCPThenFallback(server, manager, t, fresh, d, f) ==
    LET enabled == manager.enable_mcp /\ manager.agent_system
        checked == check_health(manager.health_monitor, t, fresh)
        monitor == IF enabled THEN checked.monitor ELSE manager.health_monitor
        tried   == enabled /\ checked.health[server]
        success == tried /\ d /= "raises" /\ StatusIsSuccess(d)
        stats1  == IF success THEN Bump(manager.stats, "mcp_calls")
                   ELSE manager.stats
        failed  == tried /\ (d = "raises" \/ (success /\ FormatterRaises(d)))
        stats2  == IF failed THEN Bump(stats1, "errors") ELSE stats1
        viaMCP  == success /\ ~ FormatterRaises(d)
        stats3  == IF viaMCP THEN stats2 ELSE Bump(stats2, "fallback_calls")
    IN  [manager |-> [manager EXCEPT !.health_monitor = monitor, !.stats = stats3],
         contacted |-> enabled /\ checked.contacted,
         downstream_called |-> tried,
         fallback_called |-> ~ viaMCP,
         source |-> IF viaMCP THEN "MCP"
                    ELSE IF f = "text" THEN "Fallback GPT-4" ELSE "none",
         raised |-> ~ viaMCP /\ f = "raises"]

predict_compensation(manager, t, fresh, d, f) ==
    TryMCPThenFallback("compensation_server", manager, t, fresh, d, f)

analyze_policy(manager, t, fresh, d, f) ==
    TryMCPThenFallback("policy_server", manager, t, fresh, d, f)

\* agent_system.health_check was not called
NoFresh == [kind |-> "not_called", status |-> [s \in Servers |-> FALSE]]

\* fresh is what health_check did when it was called, status the health
\* status check_health returned when it was called
NoServiceCall ==
    [operation |-> "none", server |-> "none", mcp_enabled |-> FALSE,
     health |-> FALSE, downstream |-> "raises", fallback |-> "raises",
     contacted |-> FALSE, downstream_called |-> FALSE,
     fallback_called |-> FALSE, source |-> "none", raised |-> FALSE,
     fresh |-> NoFresh, status |-> NoFresh.status]

\* the call as the caller sees it: what the manager was asked, what its
\* collaborators did, and what came back
ServiceCall(operation, server, manager, t, fresh, d, f, r) ==
    [operation |-> operation, server |-> server,
     mcp_enabled |-> manager.enable_mcp /\ manager.agent_system,
     health |-> check_health(manager.health_monitor, t, fresh).health[server],
     downstream |-> d, fallback |-> f,
     contacted |-> r.contacted, downstream_called |-> r.downstream_called,
     fallback_called |-> r.fallback_called, source |-> r.source,
     raised |-> r.raised,
     fresh |-> IF r.contacted THEN fresh ELSE NoFresh,
     status |-> IF manager.enable_mcp /\ manager.agent_system
                THEN check_health(manager.health_monitor, t, fresh).health
                ELSE NoFresh.status]

CallsServed ==
    service_manager.stats.mcp_calls + service_manager.stats.fallback_calls

NoServices ==
    /\ service_manager = MCPServiceManager(TRUE, TRUE)
    /\ now = 0
    /\ service_call = NoServiceCall

PredictCompensation(fresh, d, f) ==
    /\ CallsServed < MaxCalls
    /\ LET r == predict_compensation(service_manager, now, fresh, d, f)
       IN  /\ service_manager' = r.manager
           /\ service_call' = ServiceCall("predict_compensation", "compensation_server",
                                          service_manager, now, fresh, d, f, r)
    /\ UNCHANGED now
    /\ UNCHANGED sessionVars
    /\ UNCHANGED routerVars
    /\ UNCHANGED extractorVars
    /\ UNCHANGED keyword_call
    /\ UNCHANGED questions_parsed
    /\ UNCHANGED contextVars

AnalyzePolicy(fresh, d, f) ==
    /\ CallsServed < MaxCalls
    /\ LET r == analyze_policy(service_manager, now, fresh, d, f)
       IN  /\ service_manager' = r.manager
           /\ service_call' = ServiceCall("analyze_policy", "policy_server",
                                          service_manager, now, fresh, d, f, r)
    /\ UNCHANGED now
    /\ UNCHANGED sessionVars
    /\ UNCHANGED routerVars
    /\ UNCHANGED extractorVars
    /\ UNCHANGED keyword_call
    /\ UNCHANGED questions_parsed
    /\ UNCHANGED contextVars

\* get_health_status: check_health called on its own when the manager has
\* an agent system
GetHealthStatus(fresh) ==
    /\ service_manager.agent_system
    /\ LET checked == check_health(service_manager.health_monitor, now, fresh)
       IN  /\ service_manager' =
                  [service_manager EXCEPT !.health_monitor = checked.monitor]
           /\ service_call' =
                  [NoServiceCall EXCEPT
                      !.operation = "get_health_status",
                      !.mcp_enabled = service_manager.enable_mcp,
                      !.contacted = checked.contacted,
                      !.fresh = IF checked.contacted THEN fresh ELSE NoFresh,
                      !.status = checked.health]
    /\ UNCHANGED now
    /\ UNCHANGED sessionVars
    /\ UNCHANGED routerVars
    /\ UNCHANGED extractorVars
    /\ UNCHANGED keyword_call
    /\ UNCHANGED questions_parsed
    /\ UNCHANGED contextVars

\* health_monitor.invalidate_cache()
InvalidateCache ==
    /\ service_manager' =
          [service_manager EXCEPT !.health_monitor.last_check = NeverChecked]
    /\ service_call' = [NoServiceCall EXCEPT !.operation = "invalidate_cache"]
    /\ UNCHANGED now
    /\ UNCHANGED sessionVars
    /\ UNCHANGED routerVars
    /\ UNCHANGED extractorVars
    /\ UNCHANGED keyword_call
    /\ UNCHANGED questions_parsed
    /\ UNCHANGED contextVars

\* time passes between two calls
Tick ==
    /\ now < MaxClock
    /\ now' = now + 1
    /\ UNCHANGED <<service_manager, service_call>>
    /\ UNCHANGED sessionVars
    /\ UNCHANGED routerVars
    /\ UNCHANGED extractorVars
    /\ UNCHANGED keyword_call
    /\ UNCHANGED questions_parsed
    /\ UNCHANGED contextVars

NoConversation ==
    /\ extraction_route = "unset"
    /\ completion = NoCompletion
    /\ extraction = NoExtraction
    /\ collected_fields = EmptyDict
    /\ turn = NoTurn

----------------------------------------------------------------------------
(* Sessions: cl.user_session is the dictionary of the session in whose     *)
(* context the handler runs                                                *)

SessionIds == {1, 2}

\* what a session keeps between two of its messages
SessionState(role, data, ends, done) ==
    [user_role |-> role, user_data |-> data, reached_end |-> ends,
     delivered |-> done]

\* cl.user_session.get("user_data", {}) of a session that has not handled a
\* message yet
NewUserData ==
    [compensation_collection |-> NoCollection,
     policy_collection |-> NoCollection,
     awaiting_both_choice |-> FALSE,
     awaiting_compensation_confirmation |-> FALSE,
     awaiting_policy_confirmation |-> FALSE,
     intro_shown |-> FALSE]

NewSession(role) ==
    SessionState(role, NewUserData, [agent_type \in AgentTypes |-> FALSE], {})

\* variant of SessionOf in which the sessions share one dictionary: the
\* handler finds the state of the session that ran last
SessionOf_shared_dictionary(own, last) == last

\* cl.user_session.get("user_data", {}) in the context of a session: the
\* session's own dictionary, whichever session ran last
SessionOf(own, last) == own

NoOtherSession ==
    /\ current = 1
    /\ stash = NewSession("employee")

\* the next message to be handled belongs to the other session
SwitchSession ==
    LET left == SessionState(user_role, user_data, reached_end, delivered)
        resumed == SessionOf(stash, left)
    IN  /\ current' = 3 - current
        /\ stash' = left
        /\ user_role' = resumed.user_role
        /\ user_data' = resumed.user_data
        /\ reached_end' = resumed.reached_end
        /\ delivered' = resumed.delivered
        /\ UNCHANGED <<msg, branch, acted, response, is_completed, handed>>
        /\ UNCHANGED routerVars
        /\ UNCHANGED extractorVars
        /\ UNCHANGED keyword_call
        /\ UNCHANGED questions_parsed
        /\ UNCHANGED serviceVars

InitSession ==
    /\ user_role \in UserRoles
    /\ user_data = [compensation_collection |-> NoCollection,
                    policy_collection |-> NoCollection,
                    awaiting_both_choice |-> FALSE,
                    awaiting_compensation_confirmation |-> FALSE,
                    awaiting_policy_confirmation |-> FALSE,
                    intro_shown |-> FALSE]
    /\ msg = S_empty
    /\ branch = "none"
    /\ acted = {}
    /\ response = [kind |-> "welcome"]
    /\ is_completed = FALSE
    /\ handed = NotHanded
    /\ reached_end = [agent_type \in AgentTypes |-> FALSE]
    /\ delivered = {}

Init ==
    /\ InitSession
    /\ router_input = S_empty
    /\ oracle = NoOracle
    /\ routing_result = NoRoutingResult
    /\ keyword_call = NoKeywordCall
    /\ questions_parsed = EveryFileParsed
    /\ NoConversation
    /\ NoServices
    /\ NoOtherSession

Next ==
    \/ \E content \in MessageContents : AdminCommand(content)
    \/ \E content \in MessageContents, agent_type \in AgentTypes,
          m \in MCPClientOutcomes :
          ContinueCollection(agent_type, content, m)
    \/ \E content \in MessageContents, agent_type \in AgentTypes :
          ConfirmationResponse(agent_type, content)
    \/ \E content \in MessageContents : BothChoiceResponse(content)
    \/ \E content \in MessageContents, o \in SessionOracleOutcomes : RouteNewQuery(content, o)

Spec == Init /\ [][Next]_vars

----------------------------------------------------------------------------
(* The sequential collector driven directly, as its unit tests drive it *)

\* user_input of process_answer: padded mixed-case text, a negative reply,
\* blank text, ordinary text and the empty string
CollectorInputs == {S_Yes_padded, S_no, S_blank, S_policy, S_empty}

StartCollection(agent_type) ==
    /\ agent_type \in acted
    /\ LET r == start_collection(agent_type, user_data)
       IN  /\ user_data' = r.session
           /\ response' = r.message
    /\ msg' = S_empty
    /\ branch' = "start_collection"
    /\ is_completed' = FALSE
    /\ UNCHANGED <<user_role, acted, handed, reached_end, delivered>>
    /\ UNCHANGED <<router_input, oracle, routing_result>>
    /\ UNCHANGED extractorVars
    /\ UNCHANGED keyword_call
    /\ UNCHANGED questions_parsed
    /\ UNCHANGED contextVars
    /\ UNCHANGED serviceVars

ProcessAnswer(agent_type, user_input) ==
    /\ agent_type \in acted
    /\ LET key == collection_key(agent_type)
           r == process_answer(agent_type, user_input, user_data)
       IN  /\ user_data' = r.session
           /\ response' = r.message
           /\ is_completed' = r.is_completed
           /\ reached_end' = [reached_end EXCEPT ![agent_type] =
                                @ \/ (/\ user_data[key].present
                                      /\ user_data[key].current_question < LenQuestions(agent_type)
                                      /\ r.session[key].current_question >= LenQuestions(agent_type))]
    /\ msg' = user_input
    /\ branch' = "process_answer"
    /\ UNCHANGED <<user_role, acted, handed, delivered>>
    /\ UNCHANGED <<router_input, oracle, routing_result>>
    /\ UNCHANGED extractorVars
    /\ UNCHANGED keyword_call
    /\ UNCHANGED questions_parsed
    /\ UNCHANGED contextVars
    /\ UNCHANGED serviceVars

\* an agent type without an entry in self.agent_questions
UnconfiguredAgentType == "invalid"

\* start_collection called for an agent type that is not configured
StartUnconfigured ==
    /\ acted /= {}
    /\ LET r == start_collection(UnconfiguredAgentType, user_data)
       IN  /\ user_data' = r.session
           /\ response' = r.message
    /\ msg' = S_empty
    /\ branch' = "start_collection_unconfigured"
    /\ is_completed' = FALSE
    /\ UNCHANGED <<user_role, acted, handed, reached_end, delivered>>
    /\ UNCHANGED <<router_input, oracle, routing_result>>
    /\ UNCHANGED extractorVars
    /\ UNCHANGED keyword_call
    /\ UNCHANGED questions_parsed
    /\ UNCHANGED contextVars
    /\ UNCHANGED serviceVars

\* the collector is driven for one agent type per run
InitCollector ==
    /\ user_role = "employee"
    /\ user_data = [compensation_collection |-> NoCollection,
                    policy_collection |-> NoCollection,
                    awaiting_both_choice |-> FALSE,
                    awaiting_compensation_confirmation |-> FALSE,
                    awaiting_policy_confirmation |-> FALSE,
                    intro_shown |-> FALSE]
    /\ msg = S_empty
    /\ branch = "none"
    /\ \E agent_type \in AgentTypes : acted = {agent_type}
    /\ response = [kind |-> "welcome"]
    /\ is_completed = FALSE
    /\ handed = NotHanded
    /\ reached_end = [agent_type \in AgentTypes |-> FALSE]
    /\ delivered = {}
    /\ router_input = S_empty
    /\ oracle = NoOracle
    /\ routing_result = NoRoutingResult
    /\ keyword_call = NoKeywordCall
    /\ questions_parsed = EveryFileParsed
    /\ NoConversation
    /\ NoServices
    /\ NoOtherSession

NextCollector ==
    \/ \E agent_type \in AgentTypes : StartCollection(agent_type)
    \/ StartUnconfigured
    \/ \E agent_type \in AgentTypes, user_input \in CollectorInputs :
          ProcessAnswer(agent_type, user_input)

SpecCollector == InitCollector /\ [][NextCollector]_vars

----------------------------------------------------------------------------
(* route_query called on its own, for every input and oracle behaviour *)

RouterInputs ==
    {S_empty, S_blank, S_salary, S_Salary_padded, S_policy, S_salary_policy,
     S_Please_help_me, S_what_else, S_2, S_General_inquiry, S_best_visa,
     S_immigration}

InitRouter ==
    /\ InitSession
    /\ user_role = "employee"
    /\ router_input \in RouterInputs
    /\ oracle \in OracleOutcomes
    /\ routing_result = NoRoutingResult
    /\ keyword_call = NoKeywordCall
    /\ questions_parsed = EveryFileParsed
    /\ NoConversation
    /\ NoServices
    /\ NoOtherSession

RouteQuery ==
    /\ routing_result = NoRoutingResult
    /\ routing_result' = route_query(router_input, oracle)
    /\ UNCHANGED <<router_input, oracle>>
    /\ UNCHANGED sessionVars
    /\ UNCHANGED extractorVars
    /\ UNCHANGED keyword_call
    /\ UNCHANGED questions_parsed
    /\ UNCHANGED contextVars
    /\ UNCHANGED serviceVars

NextQuery ==
    /\ routing_result /= NoRoutingResult
    /\ router_input' \in RouterInputs
    /\ oracle' \in OracleOutcomes
    /\ routing_result' = NoRoutingResult
    /\ UNCHANGED sessionVars
    /\ UNCHANGED extractorVars
    /\ UNCHANGED keyword_call
    /\ UNCHANGED questions_parsed
    /\ UNCHANGED contextVars
    /\ UNCHANGED serviceVars

S_pay_visa_policy == S_pay \o <<" ">> \o S_visa \o <<" ">> \o S_policy

S_Best_Allowance == <<"B", "e", "s", "t", " ">> \o S_allowance

\* user_input of the direct _keyword_based_routing calls: the inputs of
\* route_query and inputs that match a multi-word keyword, several keywords
\* of one route, and keywords of different weights
KeywordInputs ==
    RouterInputs \cup {S_what_can_you_do, S_compensation, S_pay_visa_policy,
                       S_Best_Allowance}

\* router._keyword_based_routing(query), called on its own
KeywordBasedRouting(user_input) ==
    /\ keyword_call' = [called |-> TRUE, user_input |-> user_input,
                        route |-> _keyword_based_routing(user_input),
                        before |-> [called |-> keyword_call.called,
                                    user_input |-> keyword_call.user_input,
                                    route |-> keyword_call.route]]
    /\ UNCHANGED questions_parsed
    /\ UNCHANGED routerVars
    /\ UNCHANGED sessionVars
    /\ UNCHANGED extractorVars
    /\ UNCHANGED contextVars
    /\ UNCHANGED serviceVars

NextRouter == RouteQuery \/ NextQuery

SpecRouter == InitRouter /\ [][NextRouter]_vars

----------------------------------------------------------------------------
(* _keyword_based_routing called on its own, call after call *)

InitKeywords ==
    /\ InitSession
    /\ user_role = "employee"
    /\ router_input = S_empty
    /\ oracle = NoOracle
    /\ routing_result = NoRoutingResult
    /\ keyword_call = NoKeywordCall
    /\ questions_parsed = EveryFileParsed
    /\ NoConversation
    /\ NoServices
    /\ NoOtherSession

NextKeywords == \E user_input \in KeywordInputs : KeywordBasedRouting(user_input)

SpecKeywords == InitKeywords /\ [][NextKeywords]_vars

----------------------------------------------------------------------------
(* A multi-turn conversation with the extractor: each turn calls         *)
(* extract_information and then merges the result into collected_data    *)

InitExtractor ==
    /\ InitSession
    /\ user_role = "employee"
    /\ router_input = S_empty
    /\ oracle = NoOracle
    /\ routing_result = NoRoutingResult
    /\ keyword_call = NoKeywordCall
    /\ questions_parsed = EveryFileParsed
    /\ extraction_route \in ExtractionRoutes
    /\ completion = NoCompletion
    /\ extraction = NoExtraction
    /\ collected_fields = EmptyDict
    /\ turn = NoTurn
    /\ NoServices
    /\ NoOtherSession

\* extraction = await collector.extract_information(route=..., ...)
ExtractInformation(c) ==
    /\ extraction_route \in ExtractionRoutes
    /\ extraction = NoExtraction
    /\ completion' = c
    /\ extraction' = extract_information(extraction_route, c)
    /\ turn' = NoTurn
    /\ UNCHANGED <<extraction_route, collected_fields>>
    /\ UNCHANGED sessionVars
    /\ UNCHANGED routerVars
    /\ UNCHANGED keyword_call
    /\ UNCHANGED questions_parsed
    /\ UNCHANGED serviceVars
    /\ UNCHANGED contextVars

\* the rest of the turn: the loop over extraction["extracted_fields"].items(),
\* the completion check and the follow-up; generate_follow_up is given the
\* collected data (multi-turn conversation) or the extracted fields of the
\* result (single extraction).  An exception of the call or the lookup of a
\* missing key "extracted_fields" ends the turn before the loop, the lookup
\* of a missing key "missing_fields" ends it before the follow-up.
MergeExtractedFields ==
    /\ extraction /= NoExtraction
    /\ IF extraction.raised \/ "extracted_fields" \notin extraction.members
       THEN /\ collected_fields' = collected_fields
            /\ turn' = NoTurn
       ELSE LET merged == UpdateCollectedData(collected_fields, extraction.extracted_fields)
            IN  /\ collected_fields' = merged
                /\ \E o \in FollowUpOutcomes, data \in {1, 2} :
                      turn' = [checked |-> TRUE,
                               is_complete |-> is_complete_values(merged, extraction_route),
                               follow_up |->
                                   IF "missing_fields" \notin extraction.members
                                   THEN NoFollowUp
                                   ELSE generate_follow_up(
                                            extraction_route,
                                            IF data = 1 THEN merged
                                            ELSE extraction.extracted_fields,
                                            extraction.missing_fields, o)]
    /\ extraction' = NoExtraction
    /\ UNCHANGED <<extraction_route, completion>>
    /\ UNCHANGED sessionVars
    /\ UNCHANGED routerVars
    /\ UNCHANGED keyword_call
    /\ UNCHANGED questions_parsed
    /\ UNCHANGED serviceVars
    /\ UNCHANGED contextVars

NextExtractor ==
    \/ \E c \in Completions : ExtractInformation(c)
    \/ MergeExtractedFields

SpecExtractor == InitExtractor /\ [][NextExtractor]_vars

----------------------------------------------------------------------------
(* The service manager called directly, for every behaviour of the health *)
(* check, the downstream service and the fallback                         *)

InitServices ==
    /\ InitSession
    /\ user_role = "employee"
    /\ router_input = S_empty
    /\ oracle = NoOracle
    /\ routing_result = NoRoutingResult
    /\ keyword_call = NoKeywordCall
    /\ questions_parsed = EveryFileParsed
    /\ NoConversation
    /\ \E enable_mcp \in BOOLEAN, agent_system_built \in BOOLEAN :
          service_manager = MCPServiceManager(enable_mcp, agent_system_built)
    /\ now = 0
    /\ service_call = NoServiceCall
    /\ NoOtherSession

NextServices ==
    \/ \E fresh \in HealthCheckOutcomes, d \in DownstreamOutcomes,
          f \in FallbackOutcomes : PredictCompensation(fresh, d, f)
    \/ \E fresh \in HealthCheckOutcomes, d \in DownstreamOutcomes,
          f \in FallbackOutcomes : AnalyzePolicy(fresh, d, f)
    \/ \E fresh \in HealthCheckOutcomes : GetHealthStatus(fresh)
    \/ InvalidateCache
    \/ Tick

SpecServices == InitServices /\ [][NextServices]_vars

----------------------------------------------------------------------------
(* Two sessions whose messages are handled one at a time, in any order *)

\* msg.content of the messages of the two sessions: the user of the first
\* session confirms and rejects, the user of the second always confirms
SessionsContents(session) ==
    IF session = 1 THEN {S_Yes_padded, S_no} ELSE {S_Yes_padded}

\* the oracle raises or names one of the two domains
SessionsOracleOutcomes ==
    {o \in SessionOracleOutcomes :
        o.kind = "raises" \/ o.destination \in {"compensation", "policy"}}

\* the downstream service answers
SessionsMCPOutcomes == {"success"}

InitSessions ==
    /\ InitSession
    /\ user_role = "employee"
    /\ router_input = S_empty
    /\ oracle = NoOracle
    /\ routing_result = NoRoutingResult
    /\ keyword_call = NoKeywordCall
    /\ questions_parsed = EveryFileParsed
    /\ NoConversation
    /\ NoServices
    /\ current = 1
    /\ stash = NewSession("admin")

NextSessions ==
    \/ \E content \in SessionsContents(current), agent_type \in AgentTypes,
          m \in SessionsMCPOutcomes :
          ContinueCollection(agent_type, content, m)
    \/ \E content \in SessionsContents(current), agent_type \in AgentTypes :
          ConfirmationResponse(agent_type, content)
    \/ \E content \in SessionsContents(current), o \in SessionsOracleOutcomes :
          RouteNewQuery(content, o)
    \/ SwitchSession

SpecSessions == InitSessions /\ [][NextSessions]_vars

----------------------------------------------------------------------------
(* A session of an application started with any of its questions files   *)
(* readable or not                                                        *)

\* _load_agent_questions: each file is parsed, or the parse fails and the
\* list of the agent type is empty
QuestionsConfigurations == [AgentTypes -> BOOLEAN]

\* msg.content of the messages: the user confirms, rejects or hesitates
ConfiguredContents == {S_Yes_padded, S_no, S_not_sure}

InitConfigured ==
    /\ InitSession
    /\ user_role = "employee"
    /\ router_input = S_empty
    /\ oracle = NoOracle
    /\ routing_result = NoRoutingResult
    /\ keyword_call = NoKeywordCall
    /\ questions_parsed \in QuestionsConfigurations
    /\ NoConversation
    /\ NoServices
    /\ NoOtherSession

NextConfigured ==
    \/ \E content \in ConfiguredContents, agent_type \in AgentTypes,
          m \in MCPClientOutcomes :
          ContinueCollection(agent_type, content, m)
    \/ \E content \in ConfiguredContents, agent_type \in AgentTypes :
          ConfirmationResponse(agent_type, content)
    \/ \E content \in ConfiguredContents, o \in SessionsOracleOutcomes :
          RouteNewQuery(content, o)

SpecConfigured == InitConfigured /\ [][NextConfigured]_vars

----------------------------------------------------------------------------
(* The two collectors side by side: a run drives either the sequential    *)
(* collector or a conversation with the extractor                         *)

InitCollectors == InitCollector \/ InitExtractor

NextCollectors == NextCollector \/ NextExtractor

SpecCollectors == InitCollectors /\ [][NextCollectors]_vars

----------------------------------------------------------------------------
(* Properties of the sequential collector *)

\* the collection of a domain, before and after a step
Coll(d) == user_data[collection_key(d)]
CollAfter(d) == user_data'[collection_key(d)]

\* the step is a process_answer call for domain d
AnswerStep(d) == branch' = "process_answer" /\ d \in acted'

\* the affirmative and negative replies, lower-cased and trimmed
AffirmativeReplies ==
    {<<"y", "e", "s">>, <<"y">>, <<"c", "o", "n", "f", "i", "r", "m">>,
     <<"c", "o", "n", "f", "i", "r", "m", "e", "d">>,
     <<"c", "o", "r", "r", "e", "c", "t">>, <<"o", "k">>, <<"o", "k", "a", "y">>}
NegativeReplies ==
    {<<"n", "o">>, <<"n">>, <<"e", "d", "i", "t">>, <<"c", "h", "a", "n", "g", "e">>,
     <<"i", "n", "c", "o", "r", "r", "e", "c", "t">>, <<"w", "r", "o", "n", "g">>}

\* C1: when a collection exists, is not awaiting confirmation and
\* current_question = i < N, process_answer stores the trimmed input under
\* the title of question i, sets current_question to i + 1 and changes no
\* other stored answer; if i + 1 = N it sets awaiting_confirmation and returns
\* the confirmation summary, otherwise it returns question i + 1; in both
\* cases is_completed is false.
C1_StoresTrimmedAnswerAndAdvances ==
    [][\A d \in AgentTypes :
         LET i == Coll(d).current_question
             N == NumQuestions(d)
             title == AllRequiredFields(d)[i + 1]
         IN  (AnswerStep(d) /\ Coll(d).present /\ ~ Coll(d).awaiting_confirmation /\ i < N)
             => /\ CollAfter(d).present
                /\ DOMAIN CollAfter(d).answers = (DOMAIN Coll(d).answers) \cup {title}
                /\ CollAfter(d).answers[title] = Strip(msg')
                /\ \A t \in (DOMAIN Coll(d).answers) \ {title} :
                      CollAfter(d).answers[t] = Coll(d).answers[t]
                /\ CollAfter(d).current_question = i + 1
                /\ CollAfter(d).completed = Coll(d).completed
                /\ is_completed' = FALSE
                /\ IF i + 1 = N
                   THEN /\ CollAfter(d).awaiting_confirmation
                        /\ response'.kind = "confirmation_summary"
                        /\ response'.answers = CollAfter(d).answers
                   ELSE /\ ~ CollAfter(d).awaiting_confirmation
                        /\ response' = [kind |-> "question", agent |-> d,
                                        index |-> i + 1, of |-> N]
    ]_vars

\* a padded answer to the first compensation question was stored trimmed and
\* the second question was asked
C1_Witness ==
    /\ branch = "process_answer"
    /\ msg = <<" ", "Y", "e", "s", " ">>
    /\ Coll("compensation").current_question = 1
    /\ Coll("compensation").answers = [t \in {"Origin Location"} |-> <<"Y", "e", "s">>]
    /\ response.kind = "question" /\ response.index = 1

\* C2: while awaiting confirmation, a reply that lower-cased and trimmed is
\* one of yes, y, confirm, confirmed, correct, ok, okay sets completed,
\* clears awaiting_confirmation, leaves answers and current_question
\* unchanged and returns is_completed = true.
C2_AffirmativeCompletes ==
    [][\A d \in AgentTypes :
         (/\ AnswerStep(d)
          /\ Coll(d).present /\ Coll(d).awaiting_confirmation
          /\ Strip(Lower(msg')) \in AffirmativeReplies)
         => /\ CollAfter(d).completed
            /\ ~ CollAfter(d).awaiting_confirmation
            /\ CollAfter(d).answers = Coll(d).answers
            /\ CollAfter(d).current_question = Coll(d).current_question
            /\ is_completed' = TRUE
    ]_vars

\* the padded, capitalised reply " Yes " has completed a collection
C2_Witness ==
    /\ branch = "process_answer"
    /\ msg = <<" ", "Y", "e", "s", " ">>
    /\ is_completed
    /\ response.kind = "completion"
    /\ \E d \in acted : Coll(d).completed /\ Coll(d).current_question = NumQuestions(d)

\* C4: while awaiting confirmation, a reply that lower-cased and trimmed is
\* one of no, n, edit, change, incorrect, wrong sets current_question to 0,
\* clears awaiting_confirmation, leaves every stored answer unchanged and
\* completed false, and returns the edit message followed by the first
\* question with is_completed = false.
C4_NegativeRestartsKeepingAnswers ==
    [][\A d \in AgentTypes :
         (/\ AnswerStep(d)
          /\ Coll(d).present /\ Coll(d).awaiting_confirmation
          /\ Strip(Lower(msg')) \in NegativeReplies)
         => /\ CollAfter(d).current_question = 0
            /\ ~ CollAfter(d).awaiting_confirmation
            /\ CollAfter(d).answers = Coll(d).answers
            /\ ~ Coll(d).completed /\ ~ CollAfter(d).completed
            /\ response' = [kind |-> "edit",
                            then |-> [kind |-> "question", agent |-> d,
                                      index |-> 0, of |-> NumQuestions(d)]]
            /\ is_completed' = FALSE
    ]_vars

\* "no" has sent a fully answered collection back to its first question
C4_Witness ==
    /\ branch = "process_answer"
    /\ msg = <<"n", "o">>
    /\ response.kind = "edit"
    /\ \E d \in acted :
          /\ Coll(d).current_question = 0
          /\ ~ Coll(d).awaiting_confirmation
          /\ Cardinality(DOMAIN Coll(d).answers) = NumQuestions(d)

\* C5: while awaiting confirmation, a reply in neither set is answered with
\* a re-prompt and changes nothing: current_question, answers,
\* awaiting_confirmation and completed keep their values and
\* is_completed = false is returned.
C5_UnrecognisedReplyChangesNothing ==
    [][\A d \in AgentTypes :
         (/\ AnswerStep(d)
          /\ Coll(d).present /\ Coll(d).awaiting_confirmation
          /\ Strip(Lower(msg')) \notin AffirmativeReplies \cup NegativeReplies)
         => /\ user_data' = user_data
            /\ response' = [kind |-> "invalid", input |-> msg']
            /\ is_completed' = FALSE
    ]_vars

\* "policy" was sent to a collection awaiting confirmation, which still awaits
C5_Witness ==
    /\ branch = "process_answer"
    /\ msg = <<"p", "o", "l", "i", "c", "y">>
    /\ response.kind = "invalid"
    /\ \E d \in acted : Coll(d).awaiting_confirmation /\ ~ Coll(d).completed

----------------------------------------------------------------------------
(* Properties of the session *)

InProgress(d) == Coll(d).present /\ ~ Coll(d).completed
NoneInProgress == \A d \in AgentTypes : ~ InProgress(d)

ChoiceFlags ==
    {"awaiting_compensation_confirmation", "awaiting_policy_confirmation",
     "awaiting_both_choice"}
AnyChoiceFlag == \E f \in ChoiceFlags : user_data[f]

\* the message of the step is an admin command, answered before the branches
AdminReply ==
    /\ user_role = "admin"
    /\ msg' /= << >>
    /\ Lower(msg') \in {<<"/", "u", "s", "e", "r", "s">>, <<"/", "h", "e", "l", "p">>,
                        <<"/", "h", "i", "s", "t", "o", "r", "y">>}

\* the text the branches read, lower-cased and trimmed
Reply == Strip(Lower(IF msg' = << >> THEN S_General_inquiry ELSE msg'))

ChangedCollections == {d \in AgentTypes : CollAfter(d) /= Coll(d)}
ChangedFlags == {f \in ChoiceFlags \cup {"intro_shown"} : user_data'[f] /= user_data[f]}

\* C3: completed changes from false to true only in a step that handles an
\* affirmative reply while awaiting_confirmation is true; starting a
\* collection, storing an answer, a rejection, an unrecognised reply or any
\* other step of the session never sets it.
C3_CompletedOnlyByAffirmativeReply ==
    [][\A d \in AgentTypes :
         (~ Coll(d).completed /\ CollAfter(d).completed)
         => /\ Coll(d).present /\ Coll(d).awaiting_confirmation
            /\ branch' = "collection" /\ acted' = {d}
            /\ Reply \in AffirmativeReplies
    ]_vars

\* a collection has just been completed and its data handed on
C3_Witness ==
    /\ branch = "collection"
    /\ is_completed
    /\ handed.called /\ handed.has_data
    /\ \E d \in acted : Coll(d).completed /\ handed.agent = d

\* the three branches in priority order, one per message, and at most one
\* collection and one flag changed by it
OneBranchInPriorityOrder ==
    /\ branch' \in {"collection", "flag", "route"}
    /\ (branch' = "collection") <=> ~ NoneInProgress
    /\ (branch' = "flag") <=> (NoneInProgress /\ AnyChoiceFlag)
    /\ (branch' = "route") <=> (NoneInProgress /\ ~ AnyChoiceFlag)
    /\ branch' = "collection" =>
          \E d \in AgentTypes : InProgress(d) /\ acted' = {d} /\ ChangedCollections \subseteq {d}
    /\ Cardinality(acted') <= 1
    /\ Cardinality(ChangedCollections) <= 1
    /\ Cardinality(ChangedFlags) <= 1

\* C6 as stated: every incoming message executes exactly one of the three
\* branches, chosen in priority order (collection in progress, pending flag,
\* routing), and never advances more than one collection or flag.
C6_EveryMessageTakesOneBranch == [][OneBranchInPriorityOrder]_vars

\* C6 as amended: the same for every message that is not an admin command;
\* an admin command (/users, /help, /history from an admin) is answered
\* before the branches and leaves the session data unchanged.
C6_NonAdminMessageTakesOneBranch ==
    [][IF AdminReply
       THEN branch' = "admin" /\ user_data' = user_data
       ELSE OneBranchInPriorityOrder]_vars

\* with compensation completed, a message was handled as an answer to the
\* policy collection in progress
C6_Witness ==
    /\ branch = "collection"
    /\ acted = {"policy"}
    /\ Coll("compensation").completed
    /\ Coll("policy").present

ConfirmationFlagOf(d) ==
    IF d = "compensation" THEN "awaiting_compensation_confirmation"
    ELSE "awaiting_policy_confirmation"

\* the replies the flag branches recognise
RepliesYes ==
    \E w \in {<<"y", "e", "s">>, <<"s", "t", "a", "r", "t">>, <<"o", "k">>,
              <<"s", "u", "r", "e">>, <<"p", "r", "o", "c", "e", "e", "d">>} :
        Contains(w, Reply)
RepliesNo ==
    \E w \in {<<"n", "o">>, <<"n", "o", "t">>, <<"d", "i", "f", "f", "e", "r", "e", "n", "t">>,
              <<"w", "r", "o", "n", "g">>} :
        Contains(w, Reply)
RepliesChoice ==
    \/ Contains(<<"p", "o", "l", "i", "c", "y">>, Reply) \/ Reply = <<"1">>
    \/ Contains(<<"c", "o", "m", "p", "e", "n", "s", "a", "t", "i", "o", "n">>, Reply)
    \/ Reply = <<"2">>
Recognised(f) == IF f = "awaiting_both_choice" THEN RepliesChoice ELSE RepliesYes \/ RepliesNo

\* C7 as stated, for a message that reaches the branches: with no collection
\* in progress and a flag set, the next message is handled as the response
\* to the flag and the flag is false afterwards, whatever the message is.
C7_FlagAlwaysCleared ==
    [][\A f \in ChoiceFlags :
         (NoneInProgress /\ user_data[f] /\ ~ AdminReply)
         => (branch' = "flag" /\ ~ user_data'[f])
    ]_vars

\* C7 as amended: with no collection in progress and a flag set, the next
\* message that is not an admin command is handled as the response to the
\* flag; the flag is false afterwards when the reply is recognised (yes or no
\* words for a confirmation flag, a choice of domain for awaiting_both_choice)
\* and stays set, with the prompt repeated, when it is not.
C7_FlagClearedByRecognisedReply ==
    [][\A f \in ChoiceFlags :
         (NoneInProgress /\ user_data[f] /\ ~ AdminReply)
         => /\ branch' = "flag"
            /\ user_data'[f] = ~ Recognised(f)
            /\ ~ Recognised(f) =>
                  /\ response'.kind \in {"confirmation_not_understood", "choice_not_understood"}
                  /\ user_data' = user_data
    ]_vars

\* an unrecognised reply to "start the policy questionnaire?" left the flag set
C7_Witness ==
    /\ branch = "flag"
    /\ response.kind = "confirmation_not_understood"
    /\ user_data.awaiting_policy_confirmation
    /\ msg = <<"p", "o", "l", "i", "c", "y">>

\* C8: after a domain's collection has completed and its data has been
\* handed on, when the session is routed to that domain again and the user
\* accepts, a fresh collection is started (current_question = 0, no answers,
\* completed = false) and its first question is asked.
C8_FreshCollectionAfterCompletion ==
    [][\A d \in AgentTypes :
         (/\ d \in delivered /\ Coll(d).completed
          /\ NoneInProgress /\ user_data[ConfirmationFlagOf(d)]
          /\ ~ AdminReply /\ RepliesYes)
         => /\ CollAfter(d).present
            /\ CollAfter(d).current_question = 0
            /\ CollAfter(d).answers = << >>
            /\ ~ CollAfter(d).completed
            /\ response' = [kind |-> "starting", agent |-> d,
                            question |-> [kind |-> "question", agent |-> d,
                                          index |-> 0, of |-> NumQuestions(d)]]
    ]_vars

----------------------------------------------------------------------------
(* Completion checker against the sequential collector *)

AllAnswersNonEmpty(d) == \A t \in DOMAIN Coll(d).answers : Coll(d).answers[t] /= << >>

\* C9 as stated: is_complete(domain, answers) is true if and only if
\* process_answer has advanced current_question to the schema length.
C9_CompleteIffAdvancedToEnd ==
    \A d \in AgentTypes : is_complete(Coll(d).answers, d) <=> reached_end[d]

\* C9 as amended: is_complete(domain, answers) is true if and only if
\* process_answer has advanced current_question to the schema length and
\* every stored answer is non-empty after trimming.
C9_CompleteIffAdvancedAndNonEmpty ==
    \A d \in AgentTypes :
        is_complete(Coll(d).answers, d) <=> (reached_end[d] /\ AllAnswersNonEmpty(d))

\* every question was answered, one of them with blank text
C9_Witness ==
    \E d \in acted :
        /\ reached_end[d]
        /\ Coll(d).current_question = NumQuestions(d)
        /\ ~ AllAnswersNonEmpty(d)
        /\ ~ is_complete(Coll(d).answers, d)

----------------------------------------------------------------------------
(* Router totality *)

\* C10: for every input string and every behaviour of the oracle,
\* route_query returns a result whose destination is one of compensation,
\* policy, both_policy_and_compensation, guidance_fallback, and never raises.
C10_RouterTotal ==
    routing_result /= NoRoutingResult
    => /\ routing_result.destination \in
             {"compensation", "policy", "both_policy_and_compensation", "guidance_fallback"}
       /\ ~ routing_result.raised

----------------------------------------------------------------------------
(* Router layers *)

\* a route_query call has returned
Routed == routing_result /= NoRoutingResult

\* the lower-cased, trimmed input of the call
TrimmedInput == Strip(Lower(router_input))

\* the direct trigger phrases of the two domains and the help phrases
CompensationTriggers ==
    {S_compensation, S_salary, S_pay, S_money, S_cost, S_compensation_calculator}
PolicyTriggers ==
    {S_policy, S_policies, S_visa, S_immigration, S_compliance, S_policy_analyzer}
HelpTriggers == {S_who_are_you, S_what_can_you_do, S_help_me, S_what_else}

MatchesDirectPhrase ==
    \/ TrimmedInput \in CompensationTriggers
    \/ TrimmedInput \in PolicyTriggers
    \/ \E h \in HelpTriggers : Contains(h, TrimmedInput)

\* the oracle was called and the call raised
OracleRaised == Routed /\ routing_result.oracle_calls = 1 /\ oracle.kind = "raises"

\* C11: given the exact input "salary", the router returns destination
\* compensation and records the routing method as direct_phrase, a method
\* distinct from the oracle method.
C11_SalaryRoutedByDirectPhrase ==
    (Routed /\ router_input = S_salary)
    => /\ routing_result.destination = "compensation"
       /\ routing_result.routing_method = "direct_phrase"
       /\ routing_result.routing_method /= "llm"

\* C12: when the lower-cased, trimmed input equals a direct trigger phrase
\* of compensation or of policy, or contains one of the help phrases,
\* route_query returns the corresponding destination (compensation first,
\* then policy, then guidance_fallback) and the oracle is never invoked.
C12_DirectPhraseBypassesOracle ==
    (Routed /\ MatchesDirectPhrase)
    => /\ routing_result.destination =
             (IF TrimmedInput \in CompensationTriggers THEN "compensation"
              ELSE IF TrimmedInput \in PolicyTriggers THEN "policy"
              ELSE "guidance_fallback")
       /\ routing_result.oracle_calls = 0

\* a help phrase inside a longer input was routed to guidance although the
\* oracle would have named policy
C12_Witness ==
    /\ Routed
    /\ router_input = S_Please_help_me
    /\ oracle.kind = "wrapped" /\ oracle.has_destination
    /\ oracle.destination = "policy"
    /\ routing_result.destination = "guidance_fallback"
    /\ routing_result.oracle_calls = 0

\* C13: route_query applies its layers in the order direct phrase, keyword
\* scoring, oracle: an input that matches no direct phrase but contains a
\* configured routing keyword is routed to the destination chosen by
\* keyword scoring, and the oracle is consulted only when keyword scoring
\* yields no destination.
C13_KeywordScoringBeforeOracle ==
    (Routed /\ ~ MatchesDirectPhrase)
    => IF _keyword_based_routing(router_input) /= "None"
       THEN /\ routing_result.destination = _keyword_based_routing(router_input)
            /\ routing_result.oracle_calls = 0
       ELSE routing_result.oracle_calls = 1

\* C14: if the oracle classification raises during route_query, the
\* returned destination is guidance_fallback and no exception propagates
\* to the caller.
C14_OracleFailureRoutesToFallback ==
    OracleRaised
    => /\ routing_result.destination = "guidance_fallback"
       /\ ~ routing_result.raised

\* the oracle raised on an input that is no direct phrase
C14_Witness ==
    /\ OracleRaised
    /\ router_input = S_General_inquiry
    /\ routing_result.destination = "guidance_fallback"
    /\ ~ routing_result.raised

\* C15: if the oracle classification raises during route_query, the result
\* is recorded as an error fallback: success is False, an error entry is
\* present, and the routing method is the error-fallback method rather
\* than the normal oracle method.
C15_OracleFailureRecordedAsErrorFallback ==
    OracleRaised
    => /\ routing_result.success = FALSE
       /\ routing_result.has_error
       /\ routing_result.routing_method = "fallback"
       /\ routing_result.routing_method /= "llm"

----------------------------------------------------------------------------
(* Extractor *)

\* an extract_information call has ended in the current turn
Extracted == extraction /= NoExtraction

\* the oracle answered with a text
AnsweredWithText == Extracted /\ completion.kind = "text"

\* response texts without a parseable JSON object: empty, prose only,
\* braces in the wrong order, an unclosed brace, braces around prose
TextsWithoutJsonObject ==
    {T_empty, T_prose, T_reversed, T_unclosed, T_braces_prose}

\* the elements of a list
Elements(list) == {list[i] : i \in 1..Len(list)}

\* the field names of the schema of the domain of the conversation
SchemaFields == Elements(required_fields(extraction_route))

\* the default result: nothing extracted, every schema field missing
IsDefaultResult ==
    /\ ~ extraction.raised
    /\ extraction.members =
          {"extracted_fields", "confidence", "missing_fields", "clarifications_needed"}
    /\ extraction.extracted_fields = << >>
    /\ extraction.confidence = << >>
    /\ extraction.missing_fields = required_fields(extraction_route)
    /\ extraction.clarifications_needed = << >>

\* C16: when the oracle's response text does not contain a parseable JSON
\* object, extract_information returns the default result with empty
\* extracted_fields, empty confidence, missing_fields equal to the full
\* field list of the domain's schema and empty clarifications, and raises
\* no exception.
C16_UnparseableTextGivesDefault ==
    (AnsweredWithText /\ completion.text \in TextsWithoutJsonObject)
    => IsDefaultResult

\* prose only, for the compensation domain: every field is reported missing
C16_Witness ==
    /\ AnsweredWithText
    /\ completion.text = T_prose
    /\ extraction_route = "compensation"
    /\ Len(extraction.missing_fields) = NumCompensationQuestions
    /\ IsDefaultResult

\* C17: for every oracle response text, the result returned by
\* extract_information contains the members extracted_fields (a map),
\* confidence and missing_fields.
C17_ResultHasMembers ==
    AnsweredWithText
    => /\ ~ extraction.raised
       /\ {"extracted_fields", "confidence", "missing_fields"} \subseteq extraction.members

\* C18: if the oracle call issued by extract_information fails or times
\* out, extract_information resolves to the default result (empty
\* extracted_fields, missing_fields = full schema) and no exception
\* reaches its caller.
C18_OracleFailureGivesDefault ==
    (Extracted /\ completion.kind = "raises")
    => /\ ~ extraction.raised
       /\ extraction.extracted_fields = << >>
       /\ extraction.missing_fields = required_fields(extraction_route)

\* C19: for every domain and every result returned by extract_information,
\* the union of missing_fields and the set of fields with a non-null value
\* in extracted_fields is exactly the set of field names of the domain's
\* schema.
C19_SchemaCompleteness ==
    (Extracted /\ ~ extraction.raised)
    => /\ "missing_fields" \in extraction.members
       /\ "extracted_fields" \in extraction.members
       /\ Elements(extraction.missing_fields)
             \cup {f \in DOMAIN extraction.extracted_fields :
                      extraction.extracted_fields[f].kind /= "null"}
          = SchemaFields

\* the field holds a non-null, non-empty value in the collected data
Captured(data, f) ==
    /\ f \in DOMAIN data
    /\ data[f].kind /= "null"
    /\ data[f].text /= << >>

\* C20: for every sequence of extraction results merged turn by turn into
\* the collected data, once a field holds a non-null, non-empty value it is
\* never erased or replaced by a later null, empty or missing result for
\* that field; it changes only when a later result carries a new non-null
\* value for it.
C20_MonotonicCapture ==
    [][\A f \in DOMAIN collected_fields :
          Captured(collected_fields, f)
          => /\ Captured(collected_fields', f)
             /\ collected_fields'[f] /= collected_fields[f]
                => /\ ~ extraction.raised
                   /\ f \in DOMAIN extraction.extracted_fields
                   /\ extraction.extracted_fields[f].kind /= "null"
                   /\ collected_fields'[f] = extraction.extracted_fields[f]]_vars

\* after a result with a new origin and a null destination was merged, the
\* new origin is stored and the destination captured earlier is kept
C20_Witness ==
    /\ ~ Extracted
    /\ completion = [kind |-> "text", text |-> D_boston]
    /\ Captured(collected_fields, "Destination Location")
    /\ collected_fields["Destination Location"].text = S_London
    /\ Captured(collected_fields, "Origin Location")
    /\ collected_fields["Origin Location"].text = S_Boston

----------------------------------------------------------------------------
(* Completion checker *)

\* C21: is_complete(fields, domain) returns true if and only if every
\* field name of the domain's schema is a key of fields with a non-empty,
\* non-null value; extra keys are ignored, and for a domain that is not
\* registered (empty schema) it returns true for every field map.  Checked
\* on the field maps of a conversation: the extracted fields of each result
\* and the collected data.
C21_CompleteIffEverySchemaFieldHasValue ==
    /\ turn.checked
       => (turn.is_complete <=> \A f \in SchemaFields : Captured(collected_fields, f))
    /\ is_complete_values(collected_fields, extraction_route)
          <=> \A f \in SchemaFields : Captured(collected_fields, f)
    /\ Extracted
       => /\ is_complete_values(extraction.extracted_fields, extraction_route)
                <=> \A f \in SchemaFields : Captured(extraction.extracted_fields, f)
          /\ extraction_route \notin {"compensation", "policy"}
                => is_complete_values(extraction.extracted_fields, extraction_route)

\* a policy result with a value for every schema field and the extra key
\* "Notes" is complete
C21_Witness ==
    /\ Extracted
    /\ extraction_route = "policy"
    /\ "Notes" \in DOMAIN extraction.extracted_fields
    /\ SchemaFields /= {}
    /\ is_complete_values(extraction.extracted_fields, extraction_route)

----------------------------------------------------------------------------
(* Confirmation summaries *)

\* the sequential collector has returned its confirmation summary
SummaryShown == response.kind = "confirmation_summary"

\* generate_follow_up has returned the confirmation message
ConfirmationMessageShown == turn.follow_up.kind = "confirmation_message"

\* one bullet line per field of the map that holds a non-empty, non-null value
BulletsOfCaptured(data) ==
    {[field |-> f, value |-> data[f]] : f \in {g \in DOMAIN data : Captured(data, g)}}

\* one bullet line per answer with a non-empty text
BulletsOfNonEmptyAnswers(answers) ==
    {[field |-> k, value |-> answers[k]] : k \in {g \in DOMAIN answers : answers[g] /= << >>}}

\* one bullet line per answer
BulletsOfAnswers(answers) ==
    {[field |-> k, value |-> answers[k]] : k \in DOMAIN answers}

\* the message closes with the request to confirm and took no oracle call
ClosesWithRequest(message) ==
    /\ message.request /= ""
    /\ message.oracle_calls = 0

\* C22 (as stated): for every captured-field map, the confirmation summary
\* contains one bullet line with the field name and the literal value for
\* each field whose value is non-empty, contains no line for a field whose
\* value is null or empty, and ends with an explicit request to confirm; it
\* is produced without any oracle call.
C22_SummaryListsExactlyNonEmptyFields ==
    /\ ConfirmationMessageShown
       => /\ turn.follow_up.bullets = BulletsOfCaptured(turn.follow_up.data)
          /\ ClosesWithRequest(turn.follow_up)
    /\ SummaryShown
       => /\ response.bullets = BulletsOfNonEmptyAnswers(response.answers)
          /\ ClosesWithRequest(response)

\* C22 (amended): the confirmation message of the follow-up generator has
\* one bullet line for each field with a non-empty value and none for a
\* null or empty value; the confirmation summary of the sequential
\* collector has one bullet line for every stored answer, an empty one
\* included; both end with the request to confirm and take no oracle call.
C22_SummaryLines ==
    /\ ConfirmationMessageShown
       => /\ turn.follow_up.bullets = BulletsOfCaptured(turn.follow_up.data)
          /\ ClosesWithRequest(turn.follow_up)
    /\ SummaryShown
       => /\ response.bullets = BulletsOfAnswers(response.answers)
          /\ ClosesWithRequest(response)

\* a confirmation message over a map with an empty value: the empty field
\* has no line, the other field has one
C22_Witness ==
    /\ ConfirmationMessageShown
    /\ \E f \in DOMAIN turn.follow_up.data : ~ Captured(turn.follow_up.data, f)
    /\ \E f \in DOMAIN turn.follow_up.data : Captured(turn.follow_up.data, f)
    /\ Cardinality(turn.follow_up.bullets) = 1

----------------------------------------------------------------------------
(* start_collection *)

\* the session entries other than the collection of domain d are unchanged
OtherEntriesUnchanged(d) ==
    \A k \in (DOMAIN user_data) \ {collection_key(d)} : user_data'[k] = user_data[k]

\* what start_collection does to the session, for the configured domain d
StartCreatesOrKeeps(d) ==
    /\ ~ Coll(d).present
       => CollAfter(d) = [present |-> TRUE, current_question |-> 0, answers |-> << >>,
                          completed |-> FALSE, awaiting_confirmation |-> FALSE]
    /\ Coll(d).present => CollAfter(d) = Coll(d)
    /\ OtherEntriesUnchanged(d)

\* an unconfigured domain gets the apology and the session is unchanged
UnconfiguredStartApologises ==
    branch' = "start_collection_unconfigured"
    => /\ response'.kind = "not_configured"
       /\ user_data' = user_data

\* C23 (as stated): start_collection for a configured domain creates the
\* CollectionState {current_question: 0, answers: empty, completed: false}
\* when the session has none for that domain, leaves an existing
\* CollectionState of that domain and every other session entry unchanged,
\* and returns the formatted question at the state's current_question; for
\* a domain that is not configured it returns an apology message and
\* leaves the session unchanged.
C23_StartReturnsCurrentQuestion ==
    [][/\ \A d \in acted :
             branch' = "start_collection"
             => /\ StartCreatesOrKeeps(d)
                /\ response'.kind = "question"
                /\ response'.agent = d
                /\ response'.index = CollAfter(d).current_question
       /\ UnconfiguredStartApologises]_vars

\* C23 (amended): as stated, except that the formatted question is
\* returned only while current_question is below the number of questions;
\* for a collection that has been asked every question the message is
\* "All questions completed!".
C23_StartReturnsQuestionOrAllCompleted ==
    [][/\ \A d \in acted :
             branch' = "start_collection"
             => /\ StartCreatesOrKeeps(d)
                /\ IF CollAfter(d).current_question < NumQuestions(d)
                   THEN /\ response'.kind = "question"
                        /\ response'.agent = d
                        /\ response'.index = CollAfter(d).current_question
                   ELSE response'.kind = "all_questions_completed"
       /\ UnconfiguredStartApologises]_vars

\* start_collection was called on a collection that had been asked every
\* question and left it as it was
C23_Witness ==
    /\ branch = "start_collection"
    /\ response.kind = "all_questions_completed"
    /\ \E d \in acted :
          /\ Coll(d).present
          /\ Coll(d).current_question = NumQuestions(d)
          /\ DOMAIN Coll(d).answers /= {}

----------------------------------------------------------------------------
(* Results of process_answer, get_collected_data, is_collection_in_progress *)

\* C24: every call of process_answer, in every session state including a
\* session that has no CollectionState for the domain yet, returns a
\* triple (message, updated session, is_completed).
C24_ProcessAnswerReturnsTriple ==
    [][\A d \in acted :
          branch' = "process_answer"
          => process_answer(d, msg', user_data).arity = 3]_vars

\* C25: get_collected_data returns the collection's answers exactly when a
\* CollectionState for the domain exists with completed = true, and returns
\* None for a missing, in-progress or awaiting-confirmation collection;
\* is_collection_in_progress is true exactly when a CollectionState exists
\* and completed is false.
C25_DataOnlyWhenCompleted ==
    \A d \in AgentTypes :
        /\ get_collected_data(d, user_data) =
              (IF Coll(d).present /\ Coll(d).completed
               THEN [has_data |-> TRUE, data |-> Coll(d).answers]
               ELSE [has_data |-> FALSE, data |-> << >>])
        /\ is_collection_in_progress(d, user_data)
              <=> (Coll(d).present /\ ~ Coll(d).completed)

\* a collection awaits confirmation: no data yet, still in progress
C25_Witness ==
    \E d \in acted :
        /\ Coll(d).present
        /\ Coll(d).awaiting_confirmation
        /\ DOMAIN Coll(d).answers /= {}
        /\ ~ get_collected_data(d, user_data).has_data
        /\ is_collection_in_progress(d, user_data)

----------------------------------------------------------------------------
(* Guidance *)

\* the message handled by the step was routed to guidance_fallback
RoutedToFallback ==
    /\ branch' = "route"
    /\ response'.kind \in {"intro_message", "helpful_message"}

\* C26: within one session the full guidance (intro) message is shown at
\* most once: the first message routed to fallback shows it and sets
\* intro_shown, every later fallback-routed message gets the abbreviated
\* guidance, and intro_shown never returns to false.
C26_IntroShownOnce ==
    [][/\ (RoutedToFallback /\ ~ user_data.intro_shown)
          => /\ response'.kind = "intro_message"
             /\ user_data'.intro_shown
       /\ (RoutedToFallback /\ user_data.intro_shown)
          => response'.kind = "helpful_message"
       /\ response'.kind = "intro_message" => ~ user_data.intro_shown
       /\ user_data.intro_shown => user_data'.intro_shown]_vars

\* a later message routed to fallback got the abbreviated guidance
C26_Witness ==
    /\ branch = "route"
    /\ response.kind = "helpful_message"
    /\ user_data.intro_shown

----------------------------------------------------------------------------
(* Properties of the service manager *)

ServiceCalled ==
    service_call.operation \in {"predict_compensation", "analyze_policy"}

\* a failure of the downstream path of the last call: MCP is disabled, the
\* health monitor reports the server unhealthy (cached status while the
\* cache is valid, else the outcome of the check), the downstream call
\* returned a status other than success, or it raised
DownstreamFailure ==
    \/ ~ service_call.mcp_enabled
    \/ ~ service_call.health
    \/ service_call.downstream \in {"error", "no_status", "raises"}

\* the call ended as its fallback ended
FallbackResult ==
    /\ service_call.fallback_called
    /\ service_call.source /= "MCP"
    /\ service_call.source = "Fallback GPT-4" <=> service_call.fallback = "text"
    /\ service_call.raised <=> service_call.fallback = "raises"

\* C27: predict_compensation and analyze_policy return the fallback path's
\* result whenever MCP is disabled, the server's health is reported false,
\* the downstream call returns a status other than success, or it raises;
\* they return the downstream result only when its status is success.
C27_DownstreamFailureFallsBack ==
    ServiceCalled =>
        /\ DownstreamFailure => FallbackResult
        /\ service_call.source = "MCP" =>
              /\ service_call.mcp_enabled
              /\ service_call.health
              /\ service_call.downstream_called
              /\ service_call.downstream = "success"
              /\ ~ service_call.fallback_called

\* an enabled manager with a healthy policy server got an error status and
\* answered from the fallback
C27_Witness ==
    /\ service_call.operation = "analyze_policy"
    /\ service_call.mcp_enabled
    /\ service_call.health
    /\ service_call.downstream = "error"
    /\ service_call.source = "Fallback GPT-4"

----------------------------------------------------------------------------
(* The downstream call of the session *)

\* the last step completed a collection and called the downstream service,
\* and the call failed: it raised, timed out or returned another status
DownstreamCallFailed ==
    /\ handed.called
    /\ handed.downstream \in {"raises", "timeout", "error"}

\* C28: when the downstream prediction call made after a confirmed
\* collection fails (raises, times out, or returns a non-success status),
\* the user receives a plain-language error message and no exception
\* propagates out of the message handler.
C28_DownstreamFailureIsApology ==
    DownstreamCallFailed =>
        /\ branch = "collection"
        /\ is_completed
        /\ handed.calc_response.kind = "service_error"
        /\ ~ handed.calc_response.raised
        /\ response /= ErrorMessage

\* the policy service timed out after the collection was confirmed
C28_Witness ==
    /\ handed.called
    /\ handed.agent = "policy"
    /\ handed.has_data
    /\ Coll("policy").completed
    /\ handed.downstream = "timeout"
    /\ handed.calc_response.kind = "service_error"

----------------------------------------------------------------------------
(* Independence of sessions *)

\* the state of the session in whose context the handler runs
OwnState == SessionState(user_role, user_data, reached_end, delivered)

\* C29: sessions are independent: when two sessions are processed in any
\* interleaving, one message at a time, handling a message of one session
\* leaves the other session's state as it was, and a session that is
\* resumed finds its CollectionStates and flags exactly as its own last
\* message left them, as if it had run alone.
C29_SessionsIndependent ==
    [][/\ current' = current => stash' = stash
       /\ current' /= current =>
             /\ stash' = OwnState
             /\ OwnState' = stash]_vars

\* the second session is answering the compensation questions while the
\* first has a policy collection of its own
C29_Witness ==
    /\ current = 2
    /\ branch = "collection"
    /\ is_collection_in_progress("compensation", user_data)
    /\ user_data.policy_collection = NoCollection
    /\ stash.user_data.policy_collection /= NoCollection
    /\ stash.user_data.compensation_collection = NoCollection

----------------------------------------------------------------------------
(* The edit loop *)

\* the collection of domain d is asking a question that already has a
\* stored answer: the edit loop entered by rejecting the summary
InEditLoop(d) ==
    /\ Coll(d).present
    /\ ~ Coll(d).awaiting_confirmation
    /\ ~ Coll(d).completed
    /\ Coll(d).current_question < LenQuestions(d)
    /\ agent_questions(d)[Coll(d).current_question + 1] \in DOMAIN Coll(d).answers

\* C30: in the edit loop the prior answers act as defaults: submitting an
\* empty answer for a question keeps that question's previously stored
\* answer, and only a non-empty answer replaces it.
C30_EmptyAnswerKeepsPrevious ==
    [][\A d \in acted :
          (branch' = "process_answer" /\ InEditLoop(d)) =>
              LET title == agent_questions(d)[Coll(d).current_question + 1]
              IN  user_data'[collection_key(d)].answers[title] =
                      IF Strip(msg') = S_empty
                      THEN Coll(d).answers[title]
                      ELSE Strip(msg')]_vars

----------------------------------------------------------------------------
(* Keyword scoring *)

KeywordRoutes == 1..Len(routing_keywords)

\* the keywords of the i-th configured route that occur in the lower-cased
\* input, by position in the route's list
MatchingKeywords(i, user_input) ==
    {k \in 1..Len(routing_keywords[i].keywords) :
        Contains(routing_keywords[i].keywords[k], Lower(user_input))}

IsMultiWord(keyword) == \E c \in 1..Len(keyword) : keyword[c] \in Whitespace

\* the total of a route as the claim words it: 3 for each matching
\* multi-word keyword, 2 for each matching single word longer than 6
\* characters, 1 for each other matching keyword
StatedTotal(i, user_input) ==
    LET ks == routing_keywords[i].keywords
        m  == MatchingKeywords(i, user_input)
        multi == {k \in m : IsMultiWord(ks[k])}
        long  == {k \in m \ multi : Len(ks[k]) > 6}
    IN  3 * Cardinality(multi) + 2 * Cardinality(long)
          + Cardinality(m \ (multi \cup long))

KeywordCalled == keyword_call.called

\* the configured route the last call returned
ReturnedRoute(i) == keyword_call.route = routing_keywords[i].route

ScoresAsStated ==
    \A i \in KeywordRoutes :
        keyword_scores(Lower(keyword_call.user_input))[i]
            = StatedTotal(i, keyword_call.user_input)

NoneIffNoMatch ==
    keyword_call.route = "None"
        <=> \A i \in KeywordRoutes : MatchingKeywords(i, keyword_call.user_input) = {}

\* C31 as stated: the scores are the stated sums, the returned destination
\* has a total strictly higher than every other destination's, and None is
\* returned when no keyword matches.
C31_StrictlyHighestTotalWins ==
    KeywordCalled =>
        /\ ScoresAsStated
        /\ NoneIffNoMatch
        /\ \A i \in KeywordRoutes :
              ReturnedRoute(i) =>
                  /\ StatedTotal(i, keyword_call.user_input) > 0
                  /\ \A j \in KeywordRoutes \ {i} :
                        StatedTotal(j, keyword_call.user_input)
                            < StatedTotal(i, keyword_call.user_input)

\* C31 as amended: the scores are the stated sums, the returned destination
\* has a nonzero total that no other destination exceeds (several
\* destinations may share it), and None is returned exactly when no keyword
\* matches.
C31_HighestTotalWins ==
    KeywordCalled =>
        /\ ScoresAsStated
        /\ NoneIffNoMatch
        /\ \A i \in KeywordRoutes :
              ReturnedRoute(i) =>
                  /\ StatedTotal(i, keyword_call.user_input) > 0
                  /\ \A j \in KeywordRoutes :
                        StatedTotal(j, keyword_call.user_input)
                            <= StatedTotal(i, keyword_call.user_input)

\* "pay visa policy": policy wins with 2 against 1 for compensation
C31_Witness ==
    /\ KeywordCalled
    /\ keyword_call.user_input = S_pay_visa_policy
    /\ keyword_call.route = "policy"
    /\ StatedTotal(1, keyword_call.user_input) = 1
    /\ StatedTotal(2, keyword_call.user_input) = 2

\* the returned destination comes first, in the configuration's order,
\* among the destinations that share the highest total
FirstAmongHighest ==
    \A i \in KeywordRoutes :
        ReturnedRoute(i) =>
            /\ \A j \in KeywordRoutes :
                  StatedTotal(j, keyword_call.user_input)
                      <= StatedTotal(i, keyword_call.user_input)
            /\ \A j \in KeywordRoutes :
                  j < i => StatedTotal(j, keyword_call.user_input)
                               < StatedTotal(i, keyword_call.user_input)

\* C40: _keyword_based_routing is deterministic: for a fixed keyword
\* configuration and a fixed input it always returns the same destination,
\* and when several destinations tie for the highest score it returns the
\* one that comes first in the configuration's order.
C40_DeterministicFirstOnTie ==
    KeywordCalled =>
        /\ FirstAmongHighest
        /\ (/\ keyword_call.before.called
            /\ keyword_call.before.user_input = keyword_call.user_input)
              => keyword_call.before.route = keyword_call.route

\* "best visa" called twice in a row: policy and both tie with 1, and
\* policy, which comes first, is returned both times
C40_Witness ==
    /\ KeywordCalled
    /\ keyword_call.before.called
    /\ keyword_call.user_input = S_best_visa
    /\ keyword_call.before.user_input = S_best_visa
    /\ keyword_call.route = "policy"
    /\ StatedTotal(2, keyword_call.user_input) = StatedTotal(3, keyword_call.user_input)

----------------------------------------------------------------------------
(* Progress of the sequential collector *)

\* the collection of domain d is in state ASKING(i) for some i < N
Asking(d) ==
    /\ Coll(d).present
    /\ ~ Coll(d).awaiting_confirmation
    /\ ~ Coll(d).completed
    /\ Coll(d).current_question < LenQuestions(d)

\* the step is the edit reset: a negative reply to the summary
EditReset(d) ==
    /\ AnswerStep(d)
    /\ Coll(d).present
    /\ Coll(d).awaiting_confirmation
    /\ Strip(Lower(msg')) \in NegativeReplies

\* C32: a collection in state ASKING(i) reaches AWAITING_CONFIRMATION after
\* exactly N - i further calls of process_answer, whatever the answers are
\* (including empty answers), on the first pass and after an edit reset:
\* every call in ASKING(i) stores its answer and moves to index i + 1,
\* which is AWAITING_CONFIRMATION exactly when i + 1 = N; no answer is
\* rejected and the index never decreases except by the edit reset.
C32_EveryAnswerAdvances ==
    [][\A d \in AgentTypes :
          /\ (AnswerStep(d) /\ Asking(d)) =>
                LET i == Coll(d).current_question
                    title == agent_questions(d)[i + 1]
                IN  /\ CollAfter(d).current_question = i + 1
                    /\ title \in DOMAIN CollAfter(d).answers
                    /\ CollAfter(d).answers[title] = Strip(msg')
                    /\ CollAfter(d).awaiting_confirmation <=> (i + 1 = LenQuestions(d))
                    /\ ~ CollAfter(d).completed
                    /\ ~ is_completed'
          /\ CollAfter(d).current_question < Coll(d).current_question =>
                /\ EditReset(d)
                /\ CollAfter(d).current_question = 0]_vars

\* after an edit reset an empty answer to the last question brought the
\* compensation collection back to the summary
C32_Witness ==
    /\ branch = "process_answer"
    /\ msg = S_empty
    /\ Coll("compensation").awaiting_confirmation
    /\ Coll("compensation").current_question = LenQuestions("compensation")
    /\ Coll("compensation").answers[agent_questions("compensation")[1]] /= S_empty
    /\ Coll("compensation").answers[
           agent_questions("compensation")[LenQuestions("compensation")]] = S_empty

----------------------------------------------------------------------------
(* The health monitor *)

Monitor == service_manager.health_monitor

\* the step is a call that runs check_health: get_health_status, or a
\* prediction call of a manager with MCP enabled
HealthCheckStep ==
    /\ now' = now
    /\ service_call' /= service_call \/ service_manager' /= service_manager
    /\ \/ service_call'.operation = "get_health_status"
       \/ /\ service_call'.operation \in {"predict_compensation", "analyze_policy"}
          /\ service_call'.mcp_enabled

\* a successful check lies within the last cache_duration
RecentSuccessfulCheck ==
    /\ Monitor.last_check /= NeverChecked
    /\ now - Monitor.last_check < cache_duration

\* C33: check_health contacts the servers only when no successful check
\* lies within the last cache_duration; otherwise it returns the cached
\* status unchanged.  A check that raises returns the last known status
\* and does not refresh last_check, and after invalidate_cache the next
\* check_health is a fresh check.
C33_HealthCheckCaching ==
    [][/\ HealthCheckStep =>
             /\ service_call'.contacted <=> ~ RecentSuccessfulCheck
             /\ ~ service_call'.contacted =>
                   /\ service_call'.status = Monitor.last_status
                   /\ Monitor' = Monitor
             /\ (service_call'.contacted /\ service_call'.fresh.kind = "raises") =>
                   /\ service_call'.status = Monitor.last_status
                   /\ Monitor' = Monitor
             /\ (service_call'.contacted /\ service_call'.fresh.kind = "status") =>
                   /\ service_call'.status = service_call'.fresh.status
                   /\ Monitor' = [last_check |-> now,
                                  last_status |-> service_call'.fresh.status]
             /\ service_call.operation = "invalidate_cache" => service_call'.contacted
       /\ (now' = now /\ service_call'.operation = "invalidate_cache") =>
             /\ Monitor'.last_check = NeverChecked
             /\ Monitor'.last_status = Monitor.last_status
       /\ now' /= now => Monitor' = Monitor]_vars

\* one tick after a successful check the status was served from the cache
C33_Witness ==
    /\ service_call.operation = "get_health_status"
    /\ ~ service_call.contacted
    /\ now = Monitor.last_check + 1
    /\ service_call.status = Monitor.last_status
    /\ service_call.status["policy_server"]

----------------------------------------------------------------------------
(* The hand-off to the downstream service *)

\* the message of the step is the affirmative reply to the summary of d
ConfirmsSummary(d) ==
    /\ Coll(d).present
    /\ Coll(d).awaiting_confirmation
    /\ ~ Coll(d).completed
    /\ Lower(Strip(UserQuery(msg'))) \in ConfirmWords

\* C34: the downstream service of a domain is invoked exactly once per
\* collection, in the turn in which the affirmative confirmation completes
\* the collection and with the collection's answers; it is never invoked
\* for a collection whose completed flag is false.
C34_DownstreamOncePerCollection ==
    [][/\ handed'.called =>
             /\ CollAfter(handed'.agent).present
             /\ CollAfter(handed'.agent).completed
             /\ ConfirmsSummary(handed'.agent)
             /\ handed'.has_data
             /\ handed'.data = CollAfter(handed'.agent).answers
       /\ \A d \in AgentTypes :
             /\ (~ Coll(d).completed /\ CollAfter(d).completed) =>
                   handed'.called /\ handed'.agent = d
             /\ Coll(d).completed => CollAfter(d).completed]_vars

\* C35: whenever process_answer returns is_completed = True, the
\* collection's completed flag is true and get_collected_data returns the
\* collected answers, for every configured question list, an empty one
\* included.
C35_CompletedMeansData ==
    (branch = "collection" /\ is_completed) =>
        \A d \in acted :
            /\ Coll(d).present
            /\ Coll(d).completed
            /\ get_collected_data(d, user_data).has_data
            /\ handed.has_data
            /\ handed.data = Coll(d).answers

----------------------------------------------------------------------------
(* The states of a collection *)

TitlesOf(d) == {agent_questions(d)[i] : i \in 1..LenQuestions(d)}

\* C36: every CollectionState of the sequential collector has
\* 0 <= current_question <= N; awaiting_confirmation implies
\* current_question = N and an answer for every question title; completed
\* implies awaiting_confirmation false and current_question = N; the keys
\* of answers are question titles of the domain.
C36_CollectionStateInvariant ==
    \A d \in AgentTypes :
        Coll(d).present =>
            /\ Coll(d).current_question \in 0..LenQuestions(d)
            /\ Coll(d).awaiting_confirmation =>
                  /\ Coll(d).current_question = LenQuestions(d)
                  /\ TitlesOf(d) \subseteq DOMAIN Coll(d).answers
            /\ Coll(d).completed =>
                  /\ ~ Coll(d).awaiting_confirmation
                  /\ Coll(d).current_question = LenQuestions(d)
            /\ DOMAIN Coll(d).answers \subseteq TitlesOf(d)

\* a compensation collection confirmed with all its answers, after
\* process_answer was called once more on it
C36_Witness ==
    /\ Coll("compensation").completed
    /\ DOMAIN Coll("compensation").answers = TitlesOf("compensation")
    /\ branch = "process_answer"
    /\ response = CollectionAlreadyCompleted

----------------------------------------------------------------------------
(* The reply to "shall I start the questions?" *)

\* a domain-start confirmation is pending and the step handles the reply
ReplyToStartConfirmation ==
    /\ NoneInProgress
    /\ \/ user_data.awaiting_compensation_confirmation
       \/ user_data.awaiting_policy_confirmation
    /\ branch' = "flag"

\* the reply contains one of the words no, not, different, wrong
ContainsNegativeWord(content) ==
    \E w \in {S_no, S_not, S_different, S_wrong} :
        Contains(w, Strip(Lower(UserQuery(content))))

\* C39: while a domain-start confirmation is pending, a reply that contains
\* one of the negative words no, not, different, wrong never starts a
\* collection: it shows the general help and no CollectionState is created.
C39_NegativeReplyNeverStarts ==
    [][(ReplyToStartConfirmation /\ ContainsNegativeWord(msg')) =>
          /\ response'.kind = "general_help"
          /\ acted' = {}
          /\ \A d \in AgentTypes : CollAfter(d) = Coll(d)]_vars

----------------------------------------------------------------------------
(* One thing at a time *)

\* C37: at most one collection is in progress: the compensation and the
\* policy collection are never both present with completed = false.
C37_AtMostOneInProgress ==
    ~ (/\ Coll("compensation").present /\ ~ Coll("compensation").completed
       /\ Coll("policy").present /\ ~ Coll("policy").completed)

\* both collections are present: the compensation one is completed, the
\* policy one is being answered
C37_Witness ==
    /\ Coll("compensation").present /\ Coll("compensation").completed
    /\ Coll("policy").present /\ ~ Coll("policy").completed
    /\ branch = "collection"

SetFlags == {f \in ChoiceFlags : user_data[f]}

\* C38: at most one of awaiting_compensation_confirmation,
\* awaiting_policy_confirmation and awaiting_both_choice is set, and none
\* of them is set while a collection is in progress.
C38_AtMostOneFlag ==
    /\ Cardinality(SetFlags) <= 1
    /\ (\E d \in AgentTypes : Coll(d).present /\ ~ Coll(d).completed) => SetFlags = {}

\* a flag is set, alone, in a session whose earlier collection of the
\* other domain is completed
C38_Witness ==
    \/ /\ SetFlags = {"awaiting_policy_confirmation"}
       /\ Coll("compensation").completed
    \/ /\ SetFlags = {"awaiting_both_choice"}
       /\ Coll("policy").completed

====
